---- MODULE Spec2Model ----
(***************************************************************************)
(* Rule engine and move generator of the Hive board game (chive):         *)
(* Game::turns, Game::with_turn_applied, Game::game_result and the        *)
(* Zobrist hash, modelled from src/src/engine.                            *)
(*                                                                         *)
(* Representation                                                          *)
(*   Hex        <<q, r, h>>                                                *)
(*   Tile       [bug |-> ..., color |-> ...]                               *)
(*   Hive       function from the occupied hexes to their tiles           *)
(*   Option<T>  the empty set (None) or a singleton (Some(x))             *)
(*   Vec<Bug>   a sequence                                                 *)
(*   iterators  the set of their items (the order is never exposed)       *)
(***************************************************************************)
EXTENDS Integers, Sequences, FiniteSets, TLC

VARIABLES hive, white_reserve, black_reserve, active_player,
          immobilized_piece, last_turn, zobrist_hash, plies_left,
          hex_map, original_map,
          ZOBRIST_TABLE, pc, built, table_refs, calls_made,
          table_reads, app

\* the Game under play and the turns left to apply
game_vars == <<hive, white_reserve, black_reserve, active_player,
               immobilized_piece, last_turn, zobrist_hash, plies_left>>

\* a hex map handed to canonicalize, and the map it was made from
canon_vars == <<hex_map, original_map>>

\* the static OnceLock of zobrist.rs and the threads that call ZobristTable::get
thread_vars == <<ZOBRIST_TABLE, pc, built, table_refs, calls_made>>

vars == <<hive, white_reserve, black_reserve, active_player,
          immobilized_piece, last_turn, zobrist_hash, plies_left,
          hex_map, original_map,
          ZOBRIST_TABLE, pc, built, table_refs, calls_made,
          table_reads, app>>

\* ------------------------------------------------------------------ bounds

\* Turns applied from the default (empty) game.
MaxPly == 4

\* Turns applied from a position built by from_hive.
MaxFixturePly == 3

\* Turns applied from a position late in the game or taken from a test.
MaxEndgamePly == 2

\* Entries of a hex map handed to canonicalize.
MaxCanonTiles == 3

\* Largest |q|, |r| and |s| of a hex in such a map.
MaxCanonAxis == 2

\* Largest h of a hex in such a map.
MaxCanonHeight == 1

\* Threads that call ZobristTable::get.
MaxThreads == 3

\* Calls of ZobristTable::get one thread makes.
MaxCalls == 2

\* Different tables ZobristTable::new can draw from random().
MaxTables == 2

\* Reads of ZobristTable::table_value that are compared with each other.
MaxReads == 2

\* Turns applied while the terminal interface runs.
MaxTuiPly == 2

\* ------------------------------------------------------------------ hex.rs

Abs(x) == IF x < 0 THEN -x ELSE x

Max(a, b) == IF a > b THEN a ELSE b

\* Hex::s
s(hex) == -hex[1] - hex[2]

\* Hex::base_level
base_level(hex) == <<hex[1], hex[2], 0>>

\* Hex { h, ..*hex }
at_height(hex, h) == <<hex[1], hex[2], h>>

\* impl Add / Sub for Hex
hex_add(a, b) == <<a[1] + b[1], a[2] + b[2], a[3] + b[3]>>

hex_sub(a, b) == <<a[1] - b[1], a[2] - b[2], a[3] - b[3]>>

\* Direction::vector, in the ring order of the Direction enum:
\* UpLeft, UpRight, Right, DownRight, DownLeft, Left
vector == << <<0, -1, 0>>, <<1, -1, 0>>, <<1, 0, 0>>,
             <<0, 1, 0>>, <<-1, 1, 0>>, <<-1, 0, 0>> >>

\* hex::neighbor
neighbor(hex, direction) == hex_add(hex, vector[direction])

\* hex::neighbors, as the sequence Direction::iter() yields
neighbors_seq(hex) == [d \in 1..6 |-> neighbor(hex, d)]

\* hex::neighbors, as a set
neighbors(hex) == {neighbor(hex, d) : d \in 1..6}

\* hex::flat_distance
flat_distance(lhs, rhs) ==
    LET vec == hex_sub(lhs, rhs)
    IN  (Abs(vec[1]) + Abs(vec[2]) + Abs(s(vec))) \div 2

\* hex::is_adjacent
is_adjacent(lhs, rhs) == flat_distance(lhs, rhs) = 1

\* RotationDegrees, in the order RotationDegrees::iter() yields
RotationDegrees == <<60, 120, 180, 240, 300, 360>>

\* Hex::rotated_by
rotated_by(hex, degrees) ==
    LET num_rotations == degrees \div 60
        multiplier == IF num_rotations % 2 = 1 THEN -1 ELSE 1
    IN  CASE num_rotations % 3 = 0 ->
                <<hex[1] * multiplier, hex[2] * multiplier, hex[3]>>
          [] num_rotations % 3 = 1 ->
                <<hex[2] * multiplier, s(hex) * multiplier, hex[3]>>
          [] num_rotations % 3 = 2 ->
                <<s(hex) * multiplier, hex[1] * multiplier, hex[3]>>

\* ------------------------------------------------------------------ hive.rs

Colors == {"White", "Black"}

\* Color::opposite
opposite(color) == IF color = "Black" THEN "White" ELSE "Black"

Tile(bug, color) == [bug |-> bug, color |-> color]

\* Hive::is_occupied
is_occupied(H, hex) == hex \in DOMAIN H

RECURSIVE stack_height_from(_, _, _)
stack_height_from(H, hex, height) ==
    IF at_height(hex, height) \in DOMAIN H
    THEN stack_height_from(H, hex, height + 1)
    ELSE height

\* Hive::stack_height
stack_height(H, hex) == stack_height_from(H, hex, 0)

\* toplevel_pieces that yields every tile, covered or not
toplevel_pieces_and_covered(H) == DOMAIN H

\* Hive::toplevel_pieces (the hexes; the tile is H[hex])
toplevel_pieces(H) == {hex \in DOMAIN H : stack_height(H, hex) - 1 = hex[3]}

\* Hive::topmost_occupied_hex, as an Option
topmost_occupied_hex(H, hex) ==
    LET height == stack_height(H, hex)
    IN  IF height > 0 THEN {at_height(hex, height - 1)} ELSE {}

\* Hive::occupied_neighbors_at_same_level
occupied_neighbors_at_same_level(H, hex) == neighbors(hex) \cap DOMAIN H

\* Hive::topmost_occupied_neighbors
topmost_occupied_neighbors(H, hex) ==
    UNION {topmost_occupied_hex(H, n) : n \in neighbors(hex)}

\* Hive::unoccupied_neighbors
unoccupied_neighbors(H, hex) == neighbors(hex) \ DOMAIN H

RECURSIVE next_unoccupied_spot_in_direction(_, _, _)
\* Hive::next_unoccupied_spot_in_direction
next_unoccupied_spot_in_direction(H, hex, direction) ==
    IF hex \in DOMAIN H
    THEN next_unoccupied_spot_in_direction(H, hex_add(hex, direction), direction)
    ELSE hex

\* ------------------------------------------------------------------ pathfinding

RECURSIVE connected_to(_, _, _, _)
\* The occupied cells reachable from the frontier through occupied
\* same-level neighbours, never entering the cell `removed`.
connected_to(H, removed, frontier, seen) ==
    IF frontier = {} THEN seen
    ELSE LET next == (UNION {occupied_neighbors_at_same_level(H, c) : c \in frontier})
                        \ (seen \cup {removed})
         IN  connected_to(H, removed, next, seen \cup next)

\* engine::pathfinding::move_would_break_hive
move_would_break_hive(H, from, to) ==
    LET around == occupied_neighbors_at_same_level(H, from)
        is_slide == from[3] = 0 /\ to[3] = 0 /\ is_adjacent(from, to)
    IN  IF from[3] > 0 THEN FALSE
        ELSE IF is_slide /\ ~(\E n \in around : is_adjacent(n, to)) THEN TRUE
        ELSE IF around = {} THEN FALSE
        ELSE LET reference == CHOOSE n \in around :
                                 \E d \in 1..6 :
                                     /\ neighbor(from, d) = n
                                     /\ \A e \in 1..(d - 1) : neighbor(from, e) \notin around
                 connected_pieces == connected_to(H, from, {reference}, {reference})
             IN  \E n \in around : n \notin connected_pieces

\* ArticulationSearchState::default(), the maps given a value for every hex
ArticulationSearchState(H) ==
    [visited |-> {},
     depth |-> [hex \in DOMAIN H |-> 0],
     low |-> [hex \in DOMAIN H |-> 0],
     articulation_points |-> {}]

Min(a, b) == IF a < b THEN a ELSE b

RECURSIVE find_articulation_points_strict(_, _, _, _, _)
\* find_articulation_points_child that marks current only when the child's
\* subtree reaches nothing as high as current (the test for a bridge)
find_articulation_points_child_strict(H, current, parent, depth, state, i) ==
    LET child == neighbor(current, i)
    IN  IF ~is_occupied(H, child) THEN state
        ELSE IF child \notin state.visited
        THEN LET searched == find_articulation_points_strict(H, child, current,
                                                             depth + 1, state)
                 lowered == [searched EXCEPT
                                !.low[current] = Min(@, searched.low[child])]
             IN  IF lowered.low[child] > lowered.depth[current]
                 THEN [lowered EXCEPT !.articulation_points = @ \cup {current}]
                 ELSE lowered
        ELSE IF child # parent
        THEN [state EXCEPT !.low[current] = Min(@, state.depth[child])]
        ELSE state

find_articulation_points_strict(H, current, parent, depth, state) ==
    LET entered == [state EXCEPT !.depth[current] = depth,
                                 !.low[current] = depth,
                                 !.visited = @ \cup {current}]
        after1 == find_articulation_points_child_strict(H, current, parent, depth, entered, 1)
        after2 == find_articulation_points_child_strict(H, current, parent, depth, after1, 2)
        after3 == find_articulation_points_child_strict(H, current, parent, depth, after2, 3)
        after4 == find_articulation_points_child_strict(H, current, parent, depth, after3, 4)
        after5 == find_articulation_points_child_strict(H, current, parent, depth, after4, 5)
        after6 == find_articulation_points_child_strict(H, current, parent, depth, after5, 6)
    IN  IF /\ after1.visited # {} /\ after2.visited # {} /\ after3.visited # {}
           /\ after4.visited # {} /\ after5.visited # {}
        THEN after6
        ELSE after6

RECURSIVE find_articulation_points(_, _, _, _, _)
\* one pass of the for loop of _find_articulation_points: the neighbour of
\* current in direction i
find_articulation_points_child(H, current, parent, depth, state, i) ==
    LET child == neighbor(current, i)
    IN  IF ~is_occupied(H, child) THEN state
        ELSE IF child \notin state.visited
        THEN LET searched == find_articulation_points(H, child, current,
                                                      depth + 1, state)
                 lowered == [searched EXCEPT
                                !.low[current] = Min(@, searched.low[child])]
             IN  IF lowered.low[child] >= lowered.depth[current]
                 THEN [lowered EXCEPT !.articulation_points = @ \cup {current}]
                 ELSE lowered
        ELSE IF child # parent
        THEN [state EXCEPT !.low[current] = Min(@, state.depth[child])]
        ELSE state

\* pathfinding::_find_articulation_points; the six passes of its for loop are
\* written out, each evaluated before the next one starts
find_articulation_points(H, current, parent, depth, state) ==
    LET entered == [state EXCEPT !.depth[current] = depth,
                                 !.low[current] = depth,
                                 !.visited = @ \cup {current}]
        after1 == find_articulation_points_child(H, current, parent, depth, entered, 1)
        after2 == find_articulation_points_child(H, current, parent, depth, after1, 2)
        after3 == find_articulation_points_child(H, current, parent, depth, after2, 3)
        after4 == find_articulation_points_child(H, current, parent, depth, after3, 4)
        after5 == find_articulation_points_child(H, current, parent, depth, after4, 5)
        after6 == find_articulation_points_child(H, current, parent, depth, after5, 6)
    IN  IF /\ after1.visited # {} /\ after2.visited # {} /\ after3.visited # {}
           /\ after4.visited # {} /\ after5.visited # {}
        THEN after6
        ELSE after6

RECURSIVE root_children(_, _, _, _, _)
\* the for loop of articulation_points over the neighbours of start
root_children(H, start, state, root_children_count, i) ==
    IF i > 6 THEN [state |-> state, root_children_count |-> root_children_count]
    ELSE LET child == neighbor(start, i)
         IN  IF is_occupied(H, child) /\ child \notin state.visited
             THEN root_children(H, start,
                      find_articulation_points(H, child, start, 1, state),
                      root_children_count + 1, i + 1)
             ELSE root_children(H, start, state, root_children_count, i + 1)

\* the hexes hive.map.keys().find_or_first(|hex| hex.h == 0) can return: the
\* iteration order of the hash map is not fixed
articulation_starts(H) ==
    IF \E hex \in DOMAIN H : hex[3] = 0
    THEN {hex \in DOMAIN H : hex[3] = 0}
    ELSE DOMAIN H

\* articulation_points_from without the rule for the root of the search
articulation_points_without_root(H, start) ==
    root_children(H, start,
        [ArticulationSearchState(H) EXCEPT !.visited = {start}], 0, 1
    ).state.articulation_points

\* pathfinding::articulation_points with the search started at start
articulation_points_from(H, start) ==
    LET begun == [ArticulationSearchState(H) EXCEPT !.visited = {start}]
        done == root_children(H, start, begun, 0, 1)
    IN  IF done.root_children_count >= 2
        THEN done.state.articulation_points \cup {start}
        ELSE done.state.articulation_points

\* pathfinding::articulation_points: every result the function can return
articulation_points(H) ==
    IF DOMAIN H = {} THEN {{}}
    ELSE {articulation_points_from(H, start) : start \in articulation_starts(H)}

\* ------------------------------------------------------------------ canonicalizer.rs
\* A Vec<(Hex, T)> is a set of <<hex, value>> entries until it is sorted, then a
\* sequence; T is an ordered type, here the integers.

I32_MAX == 2147483647

\* the least number of a set of integers
least(numbers) == CHOOSE x \in numbers : \A y \in numbers : x <= y

\* canonicalize_translation that shifts the q axis only
canonicalize_translation_q_only(hexes) ==
    LET min_q == least({I32_MAX} \cup {e[1][1] : e \in hexes})
    IN  {<< <<e[1][1] - min_q, e[1][2], e[1][3]>>, e[2] >> : e \in hexes}

\* canonicalize_translation
canonicalize_translation(hexes) ==
    LET min_q == least({I32_MAX} \cup {e[1][1] : e \in hexes})
        min_r == least({I32_MAX} \cup {e[1][2] : e \in hexes})
    IN  {<< <<e[1][1] - min_q, e[1][2] - min_r, e[1][3]>>, e[2] >> : e \in hexes}

\* Ord for (Hex, T): the derived order of Hex compares q, then r, then h
entry_less(a, b) ==
    \/ a[1][1] < b[1][1]
    \/ a[1][1] = b[1][1] /\ a[1][2] < b[1][2]
    \/ a[1][1] = b[1][1] /\ a[1][2] = b[1][2] /\ a[1][3] < b[1][3]
    \/ a[1] = b[1] /\ a[2] < b[2]

RECURSIVE sort(_)
\* Vec::sort
sort(entries) ==
    IF entries = {} THEN << >>
    ELSE LET first == CHOOSE x \in entries : \A y \in entries : ~entry_less(y, x)
         IN  <<first>> \o sort(entries \ {first})

\* Vec::cmp(..) == Ordering::Less: the lexicographic order of two vectors
vec_less(a, b) ==
    \/ \E i \in 1..Len(a) :
          /\ i <= Len(b)
          /\ entry_less(a[i], b[i])
          /\ \A j \in 1..(i - 1) : a[j] = b[j]
    \/ Len(a) < Len(b) /\ \A j \in 1..Len(a) : a[j] = b[j]

RECURSIVE canonicalize_loop(_, _, _)
\* the for loop of canonicalize over RotationDegrees::iter(); best is an Option
canonicalize_loop(map, i, best) ==
    IF i > Len(RotationDegrees) THEN best
    ELSE LET rotated ==
                 sort(canonicalize_translation(
                     {<<rotated_by(hex, RotationDegrees[i]), map[hex]>> :
                         hex \in DOMAIN map}))
         IN  canonicalize_loop(map, i + 1,
                 IF best = {} THEN {rotated}
                 ELSE IF \E value \in best : vec_less(value, rotated)
                 THEN {rotated}
                 ELSE best)

\* canonicalizer::canonicalize
canonicalize(map) ==
    LET best == CHOOSE value \in canonicalize_loop(map, 1, {}) : TRUE
    IN  [hex \in {best[i][1] : i \in 1..Len(best)} |->
            LET i == CHOOSE j \in 1..Len(best) : best[j][1] = hex
            IN  best[i][2]]

\* ------------------------------------------------------------------ game.rs

Bugs == {"Queen", "Ant", "Beetle", "Grasshopper", "Spider", "Ladybug",
         "Mosquito", "Pillbug"}

\* DEFAULT_RESERVE
DEFAULT_RESERVE ==
    << "Queen", "Ant", "Ant", "Ant", "Beetle", "Beetle",
       "Grasshopper", "Grasshopper", "Grasshopper", "Spider", "Spider",
       "Ladybug", "Mosquito", "Pillbug" >>

\* Turn::Placement
Placement(hex, tile) == [type |-> "Placement", hex |-> hex, tile |-> tile]

\* Turn::Move
Move(from, to, freezes_piece) ==
    [type |-> "Move", from |-> from, to |-> to, freezes_piece |-> freezes_piece]

\* Turn::Skip
Skip == [type |-> "Skip"]

\* Vec::contains
contains(vec, x) == \E i \in 1..Len(vec) : vec[i] = x

\* the set of items of a Vec
items(vec) == {vec[i] : i \in 1..Len(vec)}

\* Vec::remove(index)
remove(vec, index) == [i \in 1..(Len(vec) - 1) |-> IF i < index THEN vec[i] ELSE vec[i + 1]]

\* Iterator::position
position(vec, x) == CHOOSE i \in 1..Len(vec) : vec[i] = x /\ \A j \in 1..(i - 1) : vec[j] # x

\* Game::active_reserve
active_reserve(g) ==
    IF g.active_player = "Black" THEN g.black_reserve ELSE g.white_reserve

\* slide_is_allowed that lets a piece through a gap with both shoulders occupied
slide_is_allowed_through_gap(g, from, to) == TRUE

\* let counter_clockwise_neighbor of Game::slide_is_allowed
counter_clockwise_neighbor(from, to) ==
    LET mov == hex_sub(to, from)
    IN  hex_add(from, <<-s(mov), -mov[1], 0>>)

\* a clockwise neighbour computed as from + (-mov.r, -mov.q, 0)
clockwise_neighbor_by_q(from, to) ==
    LET mov == hex_sub(to, from)
    IN  hex_add(from, <<-mov[2], -mov[1], 0>>)

\* let clockwise_neighbor of Game::slide_is_allowed
clockwise_neighbor(from, to) ==
    LET mov == hex_sub(to, from)
    IN  hex_add(from, <<-mov[2], -s(mov), 0>>)

\* Game::slide_is_allowed
slide_is_allowed(g, from, to) ==
    \/ ~is_occupied(g.hive, clockwise_neighbor(from, to))
    \/ ~is_occupied(g.hive, counter_clockwise_neighbor(from, to))

RECURSIVE allowed_slides_loop(_, _, _, _, _, _, _)
\* the for loop of Game::allowed_slides over the ring of neighbours
allowed_slides_loop(H, ring, ignore_hex, i, empty_seen, previous_added, slides) ==
    IF i > 6 THEN [slides |-> slides, previous_added |-> previous_added]
    ELSE IF is_occupied(H, ring[i]) /\ {ring[i]} # ignore_hex
    THEN allowed_slides_loop(H, ring, ignore_hex, i + 1, 0, previous_added, slides)
    ELSE IF empty_seen > 0
    THEN allowed_slides_loop(H, ring, ignore_hex, i + 1, empty_seen + 1, TRUE,
             slides \cup {ring[i]}
                    \cup (IF previous_added THEN {} ELSE {ring[i - 1]}))
    ELSE allowed_slides_loop(H, ring, ignore_hex, i + 1, empty_seen + 1, FALSE, slides)

\* Game::allowed_slides (ignore_hex is an Option)
allowed_slides(g, hex, ignore_hex) ==
    LET ring == neighbors_seq(hex)
        loop == allowed_slides_loop(g.hive, ring, ignore_hex, 1, 0, FALSE, {})
        first == ring[1]
        second == ring[2]
        last == ring[6]
    IN  IF ~is_occupied(g.hive, first) /\ ~is_occupied(g.hive, last)
        THEN loop.slides
                \cup (IF loop.previous_added THEN {} ELSE {last})
                \cup (IF is_occupied(g.hive, second) THEN {first} ELSE {})
        ELSE loop.slides

\* Game::slide_would_separate_self_from_hive
slide_would_separate_self_from_hive(g, from, to, ignore_hex) ==
    ~(\E n \in occupied_neighbors_at_same_level(g.hive, from) :
          n # ignore_hex /\ is_adjacent(n, to))

\* is_adjacent_to_color that looks at the ground layer instead of the top tiles
is_adjacent_to_color_on_ground(g, hex, color) ==
    \E adjacent_hex \in occupied_neighbors_at_same_level(g.hive, hex) :
        g.hive[adjacent_hex].color = color

\* Game::is_adjacent_to_color
is_adjacent_to_color(g, hex, color) ==
    \E adjacent_hex \in topmost_occupied_neighbors(g.hive, hex) :
        g.hive[adjacent_hex].color = color

\* piece_moved_last_turn that never remembers a move
piece_moved_last_turn_forgotten(g) == {}

\* the piece that moved on the previous turn (pillbug_moves), an Option
piece_moved_last_turn(g) ==
    {t.to : t \in {u \in g.last_turn : u.type = "Move"}}

\* queen_moves that steps to any unoccupied neighbour, gate or no gate
queen_moves_through_gates(g, from) ==
    IF g.immobilized_piece = {from} THEN {}
    ELSE {Move(from, to, FALSE) :
            to \in {possible_move \in unoccupied_neighbors(g.hive, from) :
                      ~move_would_break_hive(g.hive, from, possible_move)}}

\* Game::queen_moves
queen_moves(g, from) ==
    IF g.immobilized_piece = {from} THEN {}
    ELSE {Move(from, to, FALSE) :
            to \in {possible_move \in allowed_slides(g, from, {from}) :
                      ~move_would_break_hive(g.hive, from, possible_move)}}

\* pillbug_moves that gives an immobilized Pillbug no throws
pillbug_moves_unless_immobilized(g, pillbug_hex) ==
    IF g.immobilized_piece = {pillbug_hex} THEN {}
    ELSE LET free_spaces == unoccupied_neighbors(g.hive, pillbug_hex)
             above_pillbug == at_height(pillbug_hex, 1)
             liftable ==
                 {n \in topmost_occupied_neighbors(g.hive, pillbug_hex) :
                     /\ n[3] = 0
                     /\ {n} # piece_moved_last_turn(g)
                     /\ slide_is_allowed(g, at_height(n, 1), above_pillbug)
                     /\ ~move_would_break_hive(g.hive, n, above_pillbug)}
         IN  queen_moves(g, pillbug_hex)
             \cup {Move(n, free_space, TRUE) :
                     <<n, free_space>> \in
                         {p \in liftable \X free_spaces :
                             slide_is_allowed(g, above_pillbug, at_height(p[2], 1))}}

\* pillbug_moves whose throws do not freeze the thrown piece
pillbug_moves_without_freeze(g, pillbug_hex) ==
    LET direct_moves ==
            IF g.immobilized_piece = {pillbug_hex} THEN {}
            ELSE queen_moves(g, pillbug_hex)
        free_spaces == unoccupied_neighbors(g.hive, pillbug_hex)
        above_pillbug == at_height(pillbug_hex, 1)
        liftable ==
            {n \in topmost_occupied_neighbors(g.hive, pillbug_hex) :
                /\ n[3] = 0
                /\ {n} # piece_moved_last_turn(g)
                /\ slide_is_allowed(g, at_height(n, 1), above_pillbug)
                /\ ~move_would_break_hive(g.hive, n, above_pillbug)}
        special_ability_moves ==
            {Move(n, free_space, FALSE) :
                <<n, free_space>> \in
                    {p \in liftable \X free_spaces :
                        slide_is_allowed(g, above_pillbug, at_height(p[2], 1))}}
    IN  direct_moves \cup special_ability_moves

\* Game::pillbug_moves
pillbug_moves(g, pillbug_hex) ==
    LET direct_moves ==
            IF g.immobilized_piece = {pillbug_hex} THEN {}
            ELSE queen_moves(g, pillbug_hex)
        free_spaces == unoccupied_neighbors(g.hive, pillbug_hex)
        above_pillbug == at_height(pillbug_hex, 1)
        liftable ==
            {n \in topmost_occupied_neighbors(g.hive, pillbug_hex) :
                /\ n[3] = 0
                /\ {n} # piece_moved_last_turn(g)
                /\ slide_is_allowed(g, at_height(n, 1), above_pillbug)
                /\ ~move_would_break_hive(g.hive, n, above_pillbug)}
        special_ability_moves ==
            {Move(n, free_space, TRUE) :
                <<n, free_space>> \in
                    {p \in liftable \X free_spaces :
                        slide_is_allowed(g, above_pillbug, at_height(p[2], 1))}}
    IN  direct_moves \cup special_ability_moves

\* grasshopper_moves without the hive check at the start
grasshopper_moves_unchecked(g, from) ==
    {Move(from,
          next_unoccupied_spot_in_direction(g.hive, from, hex_sub(n, from)),
          FALSE) :
        n \in occupied_neighbors_at_same_level(g.hive, from)}

\* Game::grasshopper_moves
grasshopper_moves(g, from) ==
    IF move_would_break_hive(g.hive, from, at_height(from, 100)) THEN {}
    ELSE {Move(from,
               next_unoccupied_spot_in_direction(g.hive, from, hex_sub(n, from)),
               FALSE) :
            n \in occupied_neighbors_at_same_level(g.hive, from)}

\* beetle_moves that checks the gate at the Beetle's own height only
beetle_moves_checked_at_own_height(g, from) ==
    IF g.immobilized_piece = {from} THEN {}
    ELSE LET slides ==
                {at_height(n, stack_height(g.hive, n)) :
                    n \in {m \in neighbors(from) :
                             slide_is_allowed(g, from, at_height(m, from[3]))}}
         IN  {Move(from, to, FALSE) :
                to \in {possible_move \in slides :
                          ~move_would_break_hive(g.hive, from, possible_move)}}

\* Game::beetle_moves
beetle_moves(g, from) ==
    IF g.immobilized_piece = {from} THEN {}
    ELSE LET slides ==
                {at_height(n, stack_height(g.hive, n)) :
                    n \in {m \in neighbors(from) :
                             LET slide_check_height ==
                                     Max(from[3], stack_height(g.hive, m))
                             IN  slide_is_allowed(g,
                                     at_height(from, slide_check_height),
                                     at_height(m, slide_check_height))}}
         IN  {Move(from, to, FALSE) :
                to \in {possible_move \in slides :
                          ~move_would_break_hive(g.hive, from, possible_move)}}

\* ladybug_dests that lets the Ladybug climb back over its own cell
ladybug_dests_over_origin(g, from, current, i) ==
    IF i = 3
    THEN {dest \in unoccupied_neighbors(g.hive, at_height(current, 0)) :
             slide_is_allowed(g, current, at_height(dest, current[3]))}
    ELSE {dest \in {at_height(n, n[3] + 1) :
                       n \in topmost_occupied_neighbors(g.hive, current)} :
             /\ slide_is_allowed(g, at_height(current, dest[3]), dest)
             /\ ~(i = 1 /\ move_would_break_hive(g.hive, from, dest))}

\* one round of the path loop of Game::ladybug_moves: the extensions of a path
\* that ends at current, on step i
ladybug_dests(g, from, current, i) ==
    IF i = 3
    THEN {dest \in unoccupied_neighbors(g.hive, at_height(current, 0)) :
             slide_is_allowed(g, current, at_height(dest, current[3]))}
    ELSE {dest \in {at_height(n, n[3] + 1) :
                       n \in topmost_occupied_neighbors(g.hive, current)} :
             /\ base_level(dest) # from
             /\ slide_is_allowed(g, at_height(current, dest[3]), dest)
             /\ ~(i = 1 /\ move_would_break_hive(g.hive, from, dest))}

RECURSIVE ladybug_paths(_, _, _, _)
\* the paths after rounds i..3 (only the last hex of a path is ever read)
ladybug_paths(g, from, ends, i) ==
    IF i > 3 THEN ends
    ELSE ladybug_paths(g, from,
             UNION {ladybug_dests(g, from, current, i) : current \in ends}, i + 1)

\* Game::ladybug_moves
ladybug_moves(g, from) ==
    IF g.immobilized_piece = {from} THEN {}
    ELSE {Move(from, to, FALSE) : to \in ladybug_paths(g, from, {from}, 1)}

\* one round of the path loop of Game::spider_moves: the extensions of path
spider_extensions(g, from, path, first_move) ==
    LET current == path[Len(path)]
    IN  {Append(path, dest) :
            dest \in {d \in allowed_slides(g, current, {from}) :
                        /\ ~contains(path, d)
                        /\ ~(\/ first_move /\ move_would_break_hive(g.hive, current, d)
                             \/ ~first_move
                                /\ slide_would_separate_self_from_hive(g, current, d, from))}}

RECURSIVE spider_paths(_, _, _, _)
spider_paths(g, from, paths, i) ==
    IF i > 3 THEN paths
    ELSE spider_paths(g, from,
             UNION {spider_extensions(g, from, path, i = 1) : path \in paths}, i + 1)

\* Game::spider_moves
spider_moves(g, from) ==
    IF g.immobilized_piece = {from} THEN {}
    ELSE {Move(from, path[Len(path)], FALSE) :
            path \in {p \in spider_paths(g, from, {<<from>>}, 1) : Len(p) = 4}}

\* ant_moves that stops after the first slide
ant_moves_one_slide(g, from) ==
    IF g.immobilized_piece = {from} THEN {}
    ELSE {Move(from, to, FALSE) :
            to \in {dest \in allowed_slides(g, from, {from}) :
                      ~move_would_break_hive(g.hive, from, dest)}}

\* the slides Game::ant_moves accepts out of current
ant_steps(g, from, current, first_move) ==
    {dest \in allowed_slides(g, current, {from}) :
        /\ dest # from
        /\ ~(\/ first_move /\ move_would_break_hive(g.hive, current, dest)
             \/ ~first_move /\ slide_would_separate_self_from_hive(g, current, dest, from))}

RECURSIVE ant_frontier(_, _, _, _)
\* the while loop of Game::ant_moves once the origin has been popped
ant_frontier(g, from, frontier, allowed_moves) ==
    IF frontier = {} THEN allowed_moves
    ELSE LET found == (UNION {ant_steps(g, from, current, FALSE) : current \in frontier})
                         \ allowed_moves
         IN  ant_frontier(g, from, found, allowed_moves \cup found)

\* Game::ant_moves
ant_moves(g, from) ==
    IF g.immobilized_piece = {from} THEN {}
    ELSE LET first == ant_steps(g, from, from, TRUE)
         IN  {Move(from, to, FALSE) : to \in ant_frontier(g, from, first, first)}

\* Game::moves_for_tile for the bugs that move by themselves
own_moves_for_tile(g, bug, hex) ==
    CASE bug = "Beetle" -> beetle_moves(g, hex)
      [] bug = "Queen" -> queen_moves(g, hex)
      [] bug = "Grasshopper" -> grasshopper_moves(g, hex)
      [] bug = "Ant" -> ant_moves(g, hex)
      [] bug = "Spider" -> spider_moves(g, hex)
      [] bug = "Ladybug" -> ladybug_moves(g, hex)
      [] bug = "Pillbug" -> pillbug_moves(g, hex)

\* mosquito_moves that does not copy a neighbouring Pillbug
mosquito_moves_without_pillbug(g, start) ==
    LET immobilized == g.immobilized_piece = {start}
        adjacent_bugs ==
            {bug \in {g.hive[hex].bug : hex \in topmost_occupied_neighbors(g.hive, start)} :
                /\ bug # "Mosquito"
                /\ bug # "Pillbug"
                /\ ~immobilized}
    IN  UNION {own_moves_for_tile(g, bug, start) : bug \in adjacent_bugs}

\* Game::mosquito_moves
mosquito_moves(g, start) ==
    LET immobilized == g.immobilized_piece = {start}
        adjacent_bugs ==
            {bug \in {g.hive[hex].bug : hex \in topmost_occupied_neighbors(g.hive, start)} :
                /\ bug # "Mosquito"
                /\ (~immobilized \/ bug = "Pillbug")}
    IN  UNION {own_moves_for_tile(g, bug, start) : bug \in adjacent_bugs}

\* Game::moves_for_tile
moves_for_tile(g, bug, hex) ==
    IF bug = "Mosquito" THEN mosquito_moves(g, hex)
    ELSE own_moves_for_tile(g, bug, hex)

\* Game::moves_for_piece
moves_for_piece(g, hex) ==
    IF \/ contains(active_reserve(g), "Queen")
       \/ stack_height(g.hive, hex) # hex[3] + 1
    THEN {}
    ELSE moves_for_tile(g, g.hive[hex].bug, hex)

\* moves without the filter on the colour of the tile
moves_of_both_players(g) ==
    IF contains(active_reserve(g), "Queen") THEN {}
    ELSE UNION {moves_for_tile(g, g.hive[hex].bug, hex) :
                  hex \in toplevel_pieces(g.hive)}

\* moves without the check that the Queen has been placed
moves_before_queen(g) ==
    UNION {moves_for_tile(g, g.hive[hex].bug, hex) :
             hex \in {x \in toplevel_pieces(g.hive) :
                        g.hive[x].color = g.active_player}}

\* Game::moves
moves(g) ==
    IF contains(active_reserve(g), "Queen") THEN {}
    ELSE UNION {moves_for_tile(g, g.hive[hex].bug, hex) :
                  hex \in {x \in toplevel_pieces(g.hive) :
                             g.hive[x].color = g.active_player}}

\* is_turn_four with the threshold one placement late
is_turn_four_one_late(active_player_reserve) ==
    Len(active_player_reserve) <= Len(DEFAULT_RESERVE) - 4

\* `is_turn_four` of Game::placements
is_turn_four(active_player_reserve) ==
    Len(active_player_reserve) <= Len(DEFAULT_RESERVE) - 3

\* Game::placements
placements(g, active_player_reserve) ==
    IF Len(active_player_reserve) = 0 THEN {}
    ELSE IF DOMAIN g.hive = {}
    THEN {Placement(<<0, 0, 0>>, Tile(bug, g.active_player)) :
            bug \in items(active_player_reserve) \ {"Queen"}}
    ELSE IF Cardinality(DOMAIN g.hive) = 1
    THEN LET only_occupied_hex == CHOOSE hex \in DOMAIN g.hive : TRUE
         IN  {Placement(p[2], Tile(p[1], g.active_player)) :
                p \in (items(active_player_reserve) \ {"Queen"})
                        \X neighbors(only_occupied_hex)}
    ELSE LET reserve ==
                IF is_turn_four(active_player_reserve)
                   /\ contains(active_player_reserve, "Queen")
                THEN <<"Queen">>
                ELSE active_player_reserve
             candidates ==
                UNION {unoccupied_neighbors(g.hive, at_height(hex, 0)) :
                         hex \in {x \in DOMAIN g.hive :
                                    g.hive[x].color = g.active_player}}
             allowed ==
                {n \in candidates :
                    ~is_adjacent_to_color(g, n, opposite(g.active_player))}
         IN  {Placement(p[2], Tile(p[1], g.active_player)) :
                p \in items(reserve) \X allowed}

\* the number of items of a Vec equal to x
count(vec, x) == Cardinality({i \in 1..Len(vec) : vec[i] = x})

\* Game::placements as the iterator yields it: each Placement with the number
\* of times it is yielded
placements_yielded(g, active_player_reserve) ==
    IF Len(active_player_reserve) = 0 THEN << >>
    ELSE IF DOMAIN g.hive = {}
    THEN [t \in placements(g, active_player_reserve) |-> 1]
    ELSE IF Cardinality(DOMAIN g.hive) = 1
    THEN [t \in placements(g, active_player_reserve) |->
            count(active_player_reserve, t.tile.bug)]
    ELSE LET reserve ==
                IF is_turn_four(active_player_reserve)
                   /\ contains(active_player_reserve, "Queen")
                THEN <<"Queen">>
                ELSE active_player_reserve
         IN  [t \in placements(g, active_player_reserve) |->
                count(reserve, t.tile.bug)
                * Cardinality({hex \in DOMAIN g.hive :
                     /\ g.hive[hex].color = g.active_player
                     /\ t.hex \in unoccupied_neighbors(g.hive, at_height(hex, 0))})]

\* turns that offers Skip next to the regular turns
turns_with_skip(g) ==
    placements(g, active_reserve(g)) \cup moves(g) \cup {Skip}

\* Game::turns
turns(g) ==
    LET active_player_reserve ==
            IF g.active_player = "Black" THEN g.black_reserve ELSE g.white_reserve
        all == placements(g, active_player_reserve) \cup moves(g)
    IN  IF all = {} THEN {Skip} ELSE all

\* Game::turn_is_valid
turn_is_valid(g, turn) == turn \in turns(g)

\* ------------------------------------------------------------------ zobrist.rs

MIN_HEIGHT == 0

MAX_HEIGHT == 5

HEIGHT_ARRAY_SIZE == MAX_HEIGHT - MIN_HEIGHT

MAX_AXIS_VALUE == 21

MIN_AXIS_VALUE == -21

AXIS_ARRAY_SIZE == MAX_AXIS_VALUE - MIN_AXIS_VALUE

\* Bug::COUNT
BUG_COUNT == 8

TILE_INDEX_COUNT == BUG_COUNT * 2

\* `tile.bug as usize`
bug_index(bug) ==
    CASE bug = "Ant" -> 0
      [] bug = "Beetle" -> 1
      [] bug = "Grasshopper" -> 2
      [] bug = "Queen" -> 3
      [] bug = "Spider" -> 4
      [] bug = "Ladybug" -> 5
      [] bug = "Mosquito" -> 6
      [] bug = "Pillbug" -> 7

\* impl From<&Tile> for TileIndex
tile_index(tile) ==
    IF tile.color = "Black" THEN bug_index(tile.bug) + BUG_COUNT ELSE bug_index(tile.bug)

\* the index table_value computes for one axis
axis_index(v) == IF v >= 0 THEN v + AXIS_ARRAY_SIZE \div 2 ELSE Abs(v)

\* ZobristTable::table_value: the slot of the piece table that is read.  The
\* table holds one random 64-bit word per slot; a ZobristHash is kept as the
\* set of slots whose words are XORed into it an odd number of times.
table_value(hex, tile) ==
    <<tile_index(tile), hex[3], axis_index(hex[1]), axis_index(hex[2])>>

\* type ZobristPieceTable: the index tuples of its entries,
\* [[[[ZobristHash; AXIS_ARRAY_SIZE]; AXIS_ARRAY_SIZE]; HEIGHT_ARRAY_SIZE]; TILE_INDEX_COUNT]
ZobristPieceTable ==
    (0..(TILE_INDEX_COUNT - 1)) \X (0..(HEIGHT_ARRAY_SIZE - 1))
        \X (0..(AXIS_ARRAY_SIZE - 1)) \X (0..(AXIS_ARRAY_SIZE - 1))

\* ZobristTable::black_to_move, a word of its own outside the piece table
black_to_move == <<TILE_INDEX_COUNT, 0, 0, 0>>

\* impl BitXor for ZobristHash
xor(a, b) == (a \ b) \cup (b \ a)

\* ZobristHash::with_added_tile
with_added_tile(hash, hex, tile) == xor(hash, {table_value(hex, tile)})

\* with_removed_tile that leaves the old position in the hash
with_removed_tile_kept(hash, hex, tile) == hash

\* ZobristHash::with_removed_tile
with_removed_tile(hash, hex, tile) == xor(hash, {table_value(hex, tile)})

\* ZobristHash::with_turn_change
with_turn_change(hash) == xor(hash, {black_to_move})

RECURSIVE hash_tiles(_, _, _)
\* the for loop of ZobristTable::hash
hash_tiles(H, left, hash) ==
    IF left = {} THEN hash
    ELSE LET hex == CHOOSE x \in left : TRUE
         IN  hash_tiles(H, left \ {hex}, xor(hash, {table_value(hex, H[hex])}))

\* ZobristTable::hash
zobrist_table_hash(H, player) ==
    hash_tiles(H, DOMAIN H, IF player = "Black" THEN {black_to_move} ELSE {})

\* ------------------------------------------------------------------ game.rs, state

\* HashMap::insert
map_insert(H, hex, tile) ==
    [x \in DOMAIN H \cup {hex} |-> IF x = hex THEN tile ELSE H[x]]

\* HashMap::remove
map_remove(H, hex) == [x \in DOMAIN H \ {hex} |-> H[x]]

\* the Placement arm that leaves the reserve as it was
with_placement_applied_reserve_kept(g, turn) ==
    [hive |-> map_insert(g.hive, turn.hex, turn.tile),
     white_reserve |-> g.white_reserve,
     black_reserve |-> g.black_reserve,
     immobilized_piece |-> {},
     last_turn |-> {turn},
     active_player |-> opposite(g.active_player),
     zobrist_hash |-> with_turn_change(
                          with_added_tile(g.zobrist_hash, turn.hex, turn.tile))]

\* the arm of with_turn_applied for Placement
with_placement_applied(g, turn) ==
    LET new_reserve == remove(active_reserve(g), position(active_reserve(g), turn.tile.bug))
    IN  [hive |-> map_insert(g.hive, turn.hex, turn.tile),
         white_reserve |-> IF g.active_player = "White" THEN new_reserve
                           ELSE g.white_reserve,
         black_reserve |-> IF g.active_player = "White" THEN g.black_reserve
                           ELSE new_reserve,
         immobilized_piece |-> {},
         last_turn |-> {turn},
         active_player |-> opposite(g.active_player),
         zobrist_hash |-> with_turn_change(
                              with_added_tile(g.zobrist_hash, turn.hex, turn.tile))]

\* the Move arm that never freezes the moved piece
with_move_applied_no_freeze(g, turn) ==
    LET tile == g.hive[turn.from]
    IN  [hive |-> map_insert(map_remove(g.hive, turn.from), turn.to, tile),
         white_reserve |-> g.white_reserve,
         black_reserve |-> g.black_reserve,
         last_turn |-> {turn},
         immobilized_piece |-> {},
         active_player |-> opposite(g.active_player),
         zobrist_hash |-> with_turn_change(
                              with_added_tile(
                                  with_removed_tile(g.zobrist_hash, turn.from, tile),
                                  turn.to, tile))]

\* the arm of with_turn_applied for Move
with_move_applied(g, turn) ==
    LET tile == g.hive[turn.from]
    IN  [hive |-> map_insert(map_remove(g.hive, turn.from), turn.to, tile),
         white_reserve |-> g.white_reserve,
         black_reserve |-> g.black_reserve,
         last_turn |-> {turn},
         immobilized_piece |-> IF turn.freezes_piece THEN {turn.to} ELSE {},
         active_player |-> opposite(g.active_player),
         zobrist_hash |-> with_turn_change(
                              with_added_tile(
                                  with_removed_tile(g.zobrist_hash, turn.from, tile),
                                  turn.to, tile))]

\* the Skip arm without the side-to-move word
with_skip_applied_same_hash(g, turn) ==
    [hive |-> g.hive,
     white_reserve |-> g.white_reserve,
     black_reserve |-> g.black_reserve,
     last_turn |-> {turn},
     immobilized_piece |-> {},
     active_player |-> opposite(g.active_player),
     zobrist_hash |-> g.zobrist_hash]

\* the arm of with_turn_applied for Skip
with_skip_applied(g, turn) ==
    [hive |-> g.hive,
     white_reserve |-> g.white_reserve,
     black_reserve |-> g.black_reserve,
     last_turn |-> {turn},
     immobilized_piece |-> {},
     active_player |-> opposite(g.active_player),
     zobrist_hash |-> xor(g.zobrist_hash, {black_to_move})]

\* the panics and debug assertions of Game::with_turn_applied: TRUE when the
\* turn is applied without one of them firing
turn_can_be_applied(g, turn) ==
    CASE turn.type = "Placement" ->
             /\ turn.tile.color = g.active_player
             /\ \E index \in 1..Len(active_reserve(g)) :
                   active_reserve(g)[index] = turn.tile.bug
             /\ ~is_occupied(g.hive, turn.hex)
      [] turn.type = "Move" ->
             /\ is_occupied(g.hive, turn.from)
             /\ ~is_occupied(g.hive, turn.to)
             /\ g.hive[turn.from].color = g.active_player \/ turn.freezes_piece
      [] turn.type = "Skip" -> TRUE

\* Game::with_turn_applied
with_turn_applied(g, turn) ==
    CASE turn.type = "Placement" -> with_placement_applied(g, turn)
      [] turn.type = "Move" -> with_move_applied(g, turn)
      [] turn.type = "Skip" -> with_skip_applied(g, turn)

\* Game::game_result
game_result(g) ==
    LET losing == {hex \in DOMAIN g.hive :
                      /\ g.hive[hex].bug = "Queen"
                      /\ Cardinality(occupied_neighbors_at_same_level(g.hive, hex)) = 6}
    IN  IF losing = {} THEN [result |-> "None"]
        ELSE IF Cardinality(losing) = 2 THEN [result |-> "Draw"]
        ELSE [result |-> "Winner",
              color |-> opposite(g.hive[CHOOSE hex \in losing : TRUE].color)]

\* impl Default for Game
default_game ==
    [hive |-> << >>,
     white_reserve |-> DEFAULT_RESERVE,
     black_reserve |-> DEFAULT_RESERVE,
     active_player |-> "White",
     last_turn |-> {},
     immobilized_piece |-> {},
     zobrist_hash |-> {}]

\* Game::from_hive_with_reserves
from_hive_with_reserves(H, player, white, black) ==
    [hive |-> H,
     white_reserve |-> white,
     black_reserve |-> black,
     last_turn |-> {},
     immobilized_piece |-> {},
     zobrist_hash |-> zobrist_table_hash(H, player),
     active_player |-> player]

RECURSIVE reserve_without(_, _, _, _)
\* the for loop of Game::from_hive for one colour
reserve_without(H, left, color, reserve) ==
    IF left = {} THEN reserve
    ELSE LET hex == CHOOSE x \in left : TRUE
         IN  reserve_without(H, left \ {hex}, color,
                 IF H[hex].color = color
                 THEN remove(reserve, position(reserve, H[hex].bug))
                 ELSE reserve)

\* Game::from_hive
from_hive(H, player) ==
    from_hive_with_reserves(H, player,
        reserve_without(H, DOMAIN H, "White", DEFAULT_RESERVE),
        reserve_without(H, DOMAIN H, "Black", DEFAULT_RESERVE))

\* ------------------------------------------------------------------ positions

\* A hive from a set of <<q, r, h, bug, color>> entries (Hive::from_hex_map).
board(entries) ==
    [hex \in {<<e[1], e[2], e[3]>> : e \in entries} |->
        LET e == CHOOSE x \in entries : <<x[1], x[2], x[3]>> = hex
        IN  Tile(e[4], e[5])]

\* White Mosquito on top of a black Beetle, between the two Queens.
mosquito_on_stack ==
    board({<<1, -1, 0, "Queen", "White">>, <<1, 0, 0, "Beetle", "Black">>,
           <<1, 0, 1, "Mosquito", "White">>, <<2, 0, 0, "Queen", "Black">>})

\* White Pillbug next to a black Grasshopper it can throw.
pillbug_and_grasshopper ==
    board({<<0, 0, 0, "Pillbug", "White">>, <<-1, 1, 0, "Queen", "White">>,
           <<1, -1, 0, "Grasshopper", "Black">>, <<1, 0, 0, "Queen", "Black">>})

\* Both white tiles lie under black Beetles: White can only skip.
white_covered ==
    board({<<0, 0, 0, "Grasshopper", "White">>, <<-1, 0, 0, "Queen", "White">>,
           <<0, 0, 1, "Beetle", "Black">>, <<-1, 0, 1, "Beetle", "Black">>,
           <<1, 0, 0, "Queen", "Black">>})

\* Three placements each, no Queen yet (test_must_place_queen_by_turn_four).
three_without_queen ==
    board({<<0, 0, 0, "Grasshopper", "White">>, <<-1, 0, 0, "Grasshopper", "White">>,
           <<-2, 0, 0, "Grasshopper", "White">>, <<1, 0, 0, "Grasshopper", "Black">>,
           <<2, 0, 0, "Grasshopper", "Black">>, <<3, 0, 0, "Grasshopper", "Black">>})

\* Both Queens one tile short of being surrounded, a Beetle next to each gap.
queens_nearly_surrounded ==
    board({<<0, 0, 0, "Queen", "White">>, <<1, 0, 0, "Queen", "Black">>,
           <<0, -1, 0, "Spider", "White">>, <<-1, 1, 0, "Spider", "White">>,
           <<0, 1, 0, "Grasshopper", "White">>, <<1, -1, 0, "Spider", "Black">>,
           <<2, -1, 0, "Spider", "Black">>, <<1, 1, 0, "Grasshopper", "Black">>,
           <<-1, -1, 0, "Beetle", "White">>, <<2, 1, 0, "Beetle", "Black">>})

\* A white Pillbug with all six neighbour cells occupied; on one of them a white
\* Mosquito stands on a black Spider, with the black Queen next to that stack.
pillbug_surrounded ==
    board({<<0, 0, 0, "Pillbug", "White">>, <<-1, 0, 0, "Queen", "White">>,
           <<0, -1, 0, "Spider", "White">>, <<-1, 1, 0, "Grasshopper", "White">>,
           <<1, -1, 0, "Spider", "Black">>, <<0, 1, 0, "Grasshopper", "Black">>,
           <<1, 0, 0, "Spider", "Black">>, <<1, 0, 1, "Mosquito", "White">>,
           <<2, 0, 0, "Queen", "Black">>})

\* White has placed all fourteen bugs, in a line that Black's three bugs extend.
white_all_placed ==
    board({<<-13, 0, 0, "Queen", "White">>, <<-12, 0, 0, "Ant", "White">>,
           <<-11, 0, 0, "Ant", "White">>, <<-10, 0, 0, "Ant", "White">>,
           <<-9, 0, 0, "Beetle", "White">>, <<-8, 0, 0, "Mosquito", "White">>,
           <<-7, 0, 0, "Beetle", "White">>, <<-6, 0, 0, "Pillbug", "White">>,
           <<-5, 0, 0, "Grasshopper", "White">>, <<-4, 0, 0, "Ladybug", "White">>,
           <<-3, 0, 0, "Grasshopper", "White">>, <<-2, 0, 0, "Spider", "White">>,
           <<-1, 0, 0, "Grasshopper", "White">>, <<0, 0, 0, "Spider", "White">>,
           <<1, 0, 0, "Beetle", "Black">>, <<2, 0, 0, "Grasshopper", "Black">>,
           <<3, 0, 0, "Queen", "Black">>})

\* A white Pillbug between two stacks topped by Beetles: the black Queen between
\* the stacks cannot be pulled through the gap, the white Queen can be thrown.
pillbug_blocked_gap ==
    board({<<0, 0, 0, "Pillbug", "White">>, <<-1, 0, 0, "Queen", "White">>,
           <<1, 0, 0, "Queen", "Black">>,
           <<1, -1, 0, "Grasshopper", "Black">>, <<1, -1, 1, "Beetle", "Black">>,
           <<0, 1, 0, "Grasshopper", "White">>, <<0, 1, 1, "Beetle", "White">>})

\* A Pillbug of each colour side by side next to the black Queen: the white one
\* can throw the black one, which then stands immobilized next to it.
two_pillbugs ==
    board({<<0, 0, 0, "Queen", "Black">>, <<1, -1, 0, "Queen", "White">>,
           <<-1, 0, 0, "Pillbug", "Black">>, <<-1, 1, 0, "Pillbug", "White">>})

\* A white Mosquito next to both Queens, a black Mosquito whose only neighbour
\* it is, and a black Pillbug that can throw the white Pillbug next to the
\* white Mosquito.
mosquito_beside_pillbug ==
    board({<<0, 0, 0, "Queen", "Black">>, <<-1, 0, 0, "Pillbug", "Black">>,
           <<0, -1, 0, "Pillbug", "White">>, <<1, 0, 0, "Queen", "White">>,
           <<0, 1, 0, "Mosquito", "White">>, <<0, 2, 0, "Mosquito", "Black">>})

\* A white Beetle on the ground between two stacks topped by black Beetles: the
\* black Queen between the stacks cannot be mounted through the gap.
beetle_gate ==
    board({<<0, 0, 0, "Beetle", "White">>, <<0, -1, 0, "Queen", "Black">>,
           <<1, -1, 0, "Grasshopper", "Black">>, <<1, -1, 1, "Beetle", "Black">>,
           <<-1, 0, 0, "Queen", "White">>, <<-1, 0, 1, "Beetle", "Black">>})

\* The Spider of test_spider_moves_finds_multiple_paths_to_same_location.
spider_many_paths ==
    board({<<-1, 2, 0, "Beetle", "Black">>, <<-1, 3, 0, "Grasshopper", "Black">>,
           <<0, 1, 0, "Ant", "Black">>, <<0, 3, 0, "Grasshopper", "Black">>,
           <<1, 2, 0, "Spider", "White">>, <<1, 3, 0, "Ant", "Black">>,
           <<2, 1, 0, "Ant", "Black">>, <<2, 2, 0, "Grasshopper", "Black">>})

\* The Spider of test_spider_cannot_make_illegal_slides.
spider_closed_gates ==
    board({<<-2, 5, 0, "Ant", "Black">>, <<-1, 3, 0, "Spider", "White">>,
           <<-1, 4, 0, "Queen", "Black">>, <<0, 0, 0, "Queen", "Black">>,
           <<0, 1, 0, "Ant", "Black">>, <<0, 2, 0, "Queen", "Black">>})

\* The Ant of test_ant_can_go_in_and_out_of_pocket.
ant_pocket ==
    board({<<1, 1, 0, "Ant", "Black">>, <<1, 3, 0, "Ant", "Black">>,
           <<2, 1, 0, "Ant", "Black">>, <<2, 2, 0, "Ant", "Black">>,
           <<3, 1, 0, "Ant", "White">>})

\* The Ladybug of test_ladybug_can_traverse_any_height.
ladybug_any_height ==
    board({<<0, 2, 0, "Ant", "Black">>, <<0, 3, 0, "Ladybug", "White">>,
           <<1, 1, 0, "Ant", "Black">>, <<1, 1, 1, "Beetle", "White">>,
           <<1, 1, 2, "Beetle", "Black">>})

\* The Ladybug of test_ladybug_cant_make_illegal_slides.
ladybug_closed_gates ==
    board({<<0, 1, 0, "Queen", "Black">>, <<0, 1, 1, "Beetle", "Black">>,
           <<1, 1, 0, "Ant", "Black">>, <<1, 2, 0, "Ant", "Black">>,
           <<1, 3, 0, "Ladybug", "White">>, <<2, 0, 0, "Ant", "Black">>,
           <<2, 0, 1, "Beetle", "Black">>})

\* The Grasshopper of test_grasshopper_move_jumps.
grasshopper_jumps ==
    board({<<0, 2, 0, "Ant", "Black">>, <<1, 1, 0, "Ant", "Black">>,
           <<1, 2, 0, "Grasshopper", "White">>})

\* A white Spider at the end of a bent line of four: its second slide round the
\* corner passes between its own origin and the hive.
spider_round_corner ==
    board({<<0, 0, 0, "Spider", "White">>, <<1, 0, 0, "Ant", "Black">>,
           <<1, 1, 0, "Ant", "Black">>, <<0, 2, 0, "Ant", "Black">>,
           <<-1, 2, 0, "Ant", "Black">>})

\* The ring of six of test_no_articulation_points_cycle.
hexagonal_cycle ==
    board({<<0, 1, 0, "Ant", "Black">>, <<0, 2, 0, "Ant", "Black">>,
           <<1, 0, 0, "Ant", "Black">>, <<1, 2, 0, "Ant", "Black">>,
           <<2, 0, 0, "Ant", "Black">>, <<2, 1, 0, "Ant", "Black">>})

\* The two clusters of test_bridge_structure.
bridge_structure ==
    board({<<0, 0, 0, "Ant", "Black">>, <<0, 1, 0, "Ant", "Black">>,
           <<1, 0, 0, "Ant", "Black">>, <<1, 1, 0, "Ant", "Black">>,
           <<1, 2, 0, "Ant", "Black">>, <<1, 3, 0, "Ant", "Black">>,
           <<2, 2, 0, "Ant", "Black">>, <<2, 3, 0, "Ant", "Black">>})

\* The games a run starts from, each with the number of turns applied to it:
\* the default game, and positions loaded with from_hive.
StartGames ==
    {[game |-> default_game, plies |-> MaxPly]}
    \cup {[game |-> from_hive(H, "White"), plies |-> MaxFixturePly] :
            H \in {mosquito_on_stack, pillbug_and_grasshopper, white_covered,
                   three_without_queen}}
    \cup {[game |-> from_hive(queens_nearly_surrounded, c), plies |-> MaxEndgamePly] :
            c \in Colors}
    \cup {[game |-> from_hive(H, "Black"), plies |-> MaxEndgamePly] :
            H \in {mosquito_beside_pillbug, beetle_gate}}
    \cup {[game |-> from_hive(H, "White"), plies |-> MaxEndgamePly] :
            H \in {pillbug_surrounded, white_all_placed, pillbug_blocked_gap,
                   two_pillbugs}}
    \cup {[game |-> from_hive_with_reserves(H, "White", << >>, << >>),
           plies |-> MaxEndgamePly] :
            H \in {spider_many_paths, spider_closed_gates, spider_round_corner,
                   ant_pocket, ladybug_any_height, ladybug_closed_gates,
                   grasshopper_jumps, hexagonal_cycle, bridge_structure}}

\* The bugs the players place in the explored games.
PlacedBugs == {"Queen", "Grasshopper", "Beetle", "Pillbug"}

\* ------------------------------------------------------------------ state machine

\* the Game value the variables hold
game ==
    [hive |-> hive,
     white_reserve |-> white_reserve,
     black_reserve |-> black_reserve,
     active_player |-> active_player,
     immobilized_piece |-> immobilized_piece,
     last_turn |-> last_turn,
     zobrist_hash |-> zobrist_hash]

\* RowCol::default()
RowCol(row, col) == [row |-> row, col |-> col, height |-> 0]

\* SelectionState::None
SelectionNone == [state |-> "None"]

\* the terminal interface is not running
AppIdle ==
    [cursor_pos |-> RowCol(0, 0), player_color |-> "White",
     selection |-> SelectionNone, returned |-> TRUE]

\* no game is played: the default game, and no turn left to apply
GameIdle ==
    /\ hive = default_game.hive
    /\ white_reserve = default_game.white_reserve
    /\ black_reserve = default_game.black_reserve
    /\ active_player = default_game.active_player
    /\ immobilized_piece = default_game.immobilized_piece
    /\ last_turn = default_game.last_turn
    /\ zobrist_hash = default_game.zobrist_hash
    /\ plies_left = 0

Threads == 1..MaxThreads

Tables == 1..MaxTables

\* static ZOBRIST_TABLE: OnceLock<ZobristTable> = OnceLock::new(), and no thread
\* has called ZobristTable::get yet
ThreadsIdle ==
    /\ ZOBRIST_TABLE = [state |-> "incomplete", value |-> {}]
    /\ pc = [t \in Threads |-> "idle"]
    /\ built = [t \in Threads |-> {}]
    /\ table_refs = [t \in Threads |-> {}]
    /\ calls_made = [t \in Threads |-> 0]

Becomes(g) ==
    /\ hive' = g.hive
    /\ white_reserve' = g.white_reserve
    /\ black_reserve' = g.black_reserve
    /\ active_player' = g.active_player
    /\ immobilized_piece' = g.immobilized_piece
    /\ last_turn' = g.last_turn
    /\ zobrist_hash' = g.zobrist_hash
    /\ UNCHANGED <<canon_vars, thread_vars, table_reads, app>>

Init ==
    \E start \in StartGames :
        /\ hive = start.game.hive
        /\ white_reserve = start.game.white_reserve
        /\ black_reserve = start.game.black_reserve
        /\ active_player = start.game.active_player
        /\ immobilized_piece = start.game.immobilized_piece
        /\ last_turn = start.game.last_turn
        /\ zobrist_hash = start.game.zobrist_hash
        /\ plies_left = start.plies
        /\ hex_map = << >>
        /\ original_map = << >>
        /\ ThreadsIdle
        /\ table_reads = {}
        /\ app = AppIdle

\* with_turn_applied(Placement) on a turn of turns()
ApplyPlacement ==
    /\ plies_left > 0
    /\ \E turn \in turns(game) :
          /\ turn.type = "Placement"
          /\ turn.tile.bug \in PlacedBugs
          /\ Becomes(with_turn_applied(game, turn))
    /\ plies_left' = plies_left - 1

\* with_turn_applied(Move) on a turn of turns()
ApplyMove ==
    /\ plies_left > 0
    /\ \E turn \in turns(game) :
          /\ turn.type = "Move"
          /\ Becomes(with_turn_applied(game, turn))
    /\ plies_left' = plies_left - 1

\* with_turn_applied(Skip) on a turn of turns()
ApplySkip ==
    /\ plies_left > 0
    /\ Skip \in turns(game)
    /\ Becomes(with_turn_applied(game, Skip))
    /\ plies_left' = plies_left - 1

Next == ApplyPlacement \/ ApplyMove \/ ApplySkip

Spec == Init /\ [][Next]_vars

\* ------------------------------------------------------------------ canonicalize under translation and rotation

\* the hexes and values of the maps handed to canonicalize
CanonHexes == {<<q, r, h>> : q \in 0..1, r \in 0..1, h \in 0..MaxCanonHeight}

CanonValues == 1..2

CanonMaps ==
    UNION {[cells -> CanonValues] :
              cells \in {c \in SUBSET CanonHexes :
                            Cardinality(c) >= 1 /\ Cardinality(c) <= MaxCanonTiles}}

\* the map of translations_and_rotations_do_not_affect_canonical_form: every
\* hex moved by (q_translation, r_translation) and then rotated
translated_map(map, q_translation, r_translation, rotation) ==
    LET moved(hex) == rotated_by(<<hex[1] + q_translation, hex[2] + r_translation,
                                   hex[3]>>, rotation)
    IN  [target \in {moved(hex) : hex \in DOMAIN map} |->
            map[CHOOSE hex \in DOMAIN map : moved(hex) = target]]

CanonInit ==
    /\ original_map \in CanonMaps
    /\ hex_map = original_map
    /\ GameIdle
    /\ ThreadsIdle
    /\ table_reads = {}
    /\ app = AppIdle

\* the map is translated, then rotated
TranslateThenRotate ==
    \E q_translation \in -1..1, r_translation \in -1..1,
       i \in 1..Len(RotationDegrees) :
        LET next_map == translated_map(hex_map, q_translation, r_translation,
                                       RotationDegrees[i])
        IN  /\ \A hex \in DOMAIN next_map :
                  /\ Abs(hex[1]) <= MaxCanonAxis
                  /\ Abs(hex[2]) <= MaxCanonAxis
                  /\ Abs(s(hex)) <= MaxCanonAxis
            /\ hex_map' = next_map
            /\ UNCHANGED <<original_map, game_vars, thread_vars, table_reads, app>>

CanonNext == TranslateThenRotate

CanonSpec == CanonInit /\ [][CanonNext]_vars

\* ------------------------------------------------------------------ ZobristTable::get from several threads
\* OnceLock::get_or_init as std::sync documents it: a caller that finds the
\* value returns it; the first caller that finds none runs the closure while
\* the lock is "running", stores the result and completes the lock; a caller
\* that finds the lock running blocks until it is complete.
\* A table is one of the values ZobristTable::new can draw from random().

ZobristTableInit ==
    /\ ThreadsIdle
    /\ table_reads = {}
    /\ app = AppIdle
    /\ GameIdle
    /\ hex_map = << >>
    /\ original_map = << >>

\* get that runs ZobristTable::new whenever it finds no value, lock or no lock
GetUnsynchronized(t) ==
    /\ pc[t] = "idle"
    /\ calls_made[t] < MaxCalls
    /\ calls_made' = [calls_made EXCEPT ![t] = @ + 1]
    /\ IF ZOBRIST_TABLE.state = "complete"
       THEN /\ table_refs' = [table_refs EXCEPT ![t] = @ \cup ZOBRIST_TABLE.value]
            /\ pc' = [pc EXCEPT ![t] = "idle"]
            /\ UNCHANGED ZOBRIST_TABLE
       ELSE /\ ZOBRIST_TABLE' = [ZOBRIST_TABLE EXCEPT !.state = "running"]
            /\ pc' = [pc EXCEPT ![t] = "new"]
            /\ UNCHANGED table_refs
    /\ UNCHANGED <<built, game_vars, canon_vars, table_reads, app>>

\* ZobristTable::get: thread t enters ZOBRIST_TABLE.get_or_init
Get(t) ==
    /\ pc[t] = "idle"
    /\ calls_made[t] < MaxCalls
    /\ calls_made' = [calls_made EXCEPT ![t] = @ + 1]
    /\ IF ZOBRIST_TABLE.state = "complete"
       THEN /\ table_refs' = [table_refs EXCEPT ![t] = @ \cup ZOBRIST_TABLE.value]
            /\ pc' = [pc EXCEPT ![t] = "idle"]
            /\ UNCHANGED ZOBRIST_TABLE
       ELSE IF ZOBRIST_TABLE.state = "incomplete"
       THEN /\ ZOBRIST_TABLE' = [ZOBRIST_TABLE EXCEPT !.state = "running"]
            /\ pc' = [pc EXCEPT ![t] = "new"]
            /\ UNCHANGED table_refs
       ELSE /\ pc' = [pc EXCEPT ![t] = "wait"]
            /\ UNCHANGED <<ZOBRIST_TABLE, table_refs>>
    /\ UNCHANGED <<built, game_vars, canon_vars, table_reads, app>>

\* ZobristTable::new: thread t fills a table from random()
New(t) ==
    /\ pc[t] = "new"
    /\ \E table \in Tables : built' = [built EXCEPT ![t] = @ \cup {table}]
    /\ pc' = [pc EXCEPT ![t] = "store"]
    /\ UNCHANGED <<ZOBRIST_TABLE, table_refs, calls_made, game_vars, canon_vars, table_reads, app>>

\* get_or_init stores what the closure returned, completes the lock and
\* returns the reference
Store(t) ==
    /\ pc[t] = "store"
    /\ \E table \in built[t] :
          /\ ZOBRIST_TABLE' = [state |-> "complete", value |-> {table}]
          /\ table_refs' = [table_refs EXCEPT ![t] = @ \cup {table}]
    /\ pc' = [pc EXCEPT ![t] = "idle"]
    /\ UNCHANGED <<built, calls_made, game_vars, canon_vars, table_reads, app>>

\* a blocked caller is released once the lock is complete
Wake(t) ==
    /\ pc[t] = "wait"
    /\ ZOBRIST_TABLE.state = "complete"
    /\ table_refs' = [table_refs EXCEPT ![t] = @ \cup ZOBRIST_TABLE.value]
    /\ pc' = [pc EXCEPT ![t] = "idle"]
    /\ UNCHANGED <<ZOBRIST_TABLE, built, calls_made, game_vars, canon_vars, table_reads, app>>

ZobristTableNext ==
    \E t \in Threads : Get(t) \/ New(t) \/ Store(t) \/ Wake(t)

ZobristTableSpec == ZobristTableInit /\ [][ZobristTableNext]_vars

\* ------------------------------------------------------------------ ZobristTable::table_value over its index range
\* table_value is applied to tiles and hexes at the ends and in the middle of
\* the range the constants of zobrist.rs name; table_reads keeps the
\* arguments of the reads made.

IndexedAxis == {MIN_AXIS_VALUE, -1, 0, 1, MAX_AXIS_VALUE}

IndexedHeights == {MIN_HEIGHT, MAX_HEIGHT}

IndexedTiles == {Tile("Ant", "White"), Tile("Pillbug", "Black")}

TableIndexInit ==
    /\ table_reads = {}
    /\ app = AppIdle
    /\ GameIdle
    /\ ThreadsIdle
    /\ hex_map = << >>
    /\ original_map = << >>

TableValue ==
    /\ Cardinality(table_reads) < MaxReads
    /\ \E tile \in IndexedTiles, q \in IndexedAxis, r \in IndexedAxis,
          h \in IndexedHeights :
          table_reads' = table_reads \cup {[hex |-> <<q, r, h>>, tile |-> tile]}
    /\ UNCHANGED <<game_vars, canon_vars, thread_vars, app>>

TableIndexNext == TableValue

TableIndexSpec == TableIndexInit /\ [][TableIndexNext]_vars

\* ------------------------------------------------------------------ bin/tui.rs: App::run
\* One step is one pass of the loop of App::run: the move of the AI when it
\* is to move, or the handling of one key press.  app is the struct App
\* without its game, which is the Game under play.

\* RowCol::to_hex
to_hex(row_col) ==
    LET parity == row_col.row % 2
    IN  <<row_col.col - (row_col.row - parity) \div 2, row_col.row, row_col.height>>

\* RowCol::from_hex
from_hex(hex) ==
    LET parity == hex[2] % 2
    IN  [row |-> hex[2], col |-> hex[1] + (hex[2] - parity) \div 2, height |-> hex[3]]

\* row_col::dimensions: the fold from RowColDimensions::default() keeps the
\* least and the greatest row and column seen, starting from zero
dimensions(hexes) ==
    LET rows == {0} \cup {from_hex(hex).row : hex \in hexes}
        cols == {0} \cup {from_hex(hex).col : hex \in hexes}
    IN  [row_min |-> CHOOSE m \in rows : \A x \in rows : m <= x,
         row_max |-> CHOOSE m \in rows : \A x \in rows : m >= x,
         col_min |-> CHOOSE m \in cols : \A x \in cols : m <= x,
         col_max |-> CHOOSE m \in cols : \A x \in cols : m >= x]

\* App::board_dimensions
board_dimensions(g) ==
    LET map_dimensions == dimensions(DOMAIN g.hive)
    IN  [row_min |-> map_dimensions.row_min - 1,
         row_max |-> map_dimensions.row_max + 1,
         col_min |-> map_dimensions.col_min - 1,
         col_max |-> map_dimensions.col_max + 1]

\* wrapping_add
wrapping_add(left, right, min, max) ==
    LET range == max - min + 1
    IN  min + ((left - min + right) % range)

\* Hive::bottommost_unoccupied_hex
bottommost_unoccupied_hex(H, hex) == at_height(hex, stack_height(H, hex))

\* the arms of handle_enter and place_piece that apply a turn only when
\* turn_is_valid accepts it
applied_if_valid(g, a, turn) ==
    IF turn_is_valid(g, turn)
    THEN [game |-> with_turn_applied(g, turn), selection |-> SelectionNone,
          applied |-> TRUE]
    ELSE [game |-> g, selection |-> a.selection, applied |-> FALSE]

\* App::handle_enter: the game and the selection after the Enter key
handle_enter(g, a) ==
    LET cursor == to_hex(a.cursor_pos)
    IN  CASE a.selection.state = "None" ->
               LET own == {hex \in topmost_occupied_hex(g.hive, cursor) :
                              g.hive[hex].color = a.player_color}
               IN  [game |-> g,
                    selection |-> IF own = {} THEN SelectionNone
                                  ELSE [state |-> "PieceSelected",
                                        pos |-> CHOOSE hex \in own : TRUE],
                    applied |-> FALSE]
          [] a.selection.state = "PieceSelected" ->
               LET pos == a.selection.pos
                   pillbug_selected == pos \in DOMAIN g.hive /\ g.hive[pos].bug = "Pillbug"
                   is_pushable_piece ==
                       /\ pillbug_selected
                       /\ \E mv \in moves_for_piece(g, pos) : mv.from = cursor
               IN  IF pos = cursor
                   THEN [game |-> g, selection |-> SelectionNone, applied |-> FALSE]
                   ELSE IF is_pushable_piece
                   THEN [game |-> g,
                         selection |-> [state |-> "PushingPiece", pillbug_pos |-> pos,
                                        push_target |-> cursor],
                         applied |-> FALSE]
                   ELSE applied_if_valid(g, a,
                            Move(pos, bottommost_unoccupied_hex(g.hive, cursor), FALSE))
          [] a.selection.state = "PushingPiece" ->
               IF cursor = a.selection.push_target
               THEN [game |-> g,
                     selection |-> [state |-> "PieceSelected",
                                    pos |-> a.selection.pillbug_pos],
                     applied |-> FALSE]
               ELSE applied_if_valid(g, a, Move(a.selection.push_target, cursor, TRUE))

\* App::place_piece, for a key that parses as a bug
place_piece(g, a, bug) ==
    IF g.active_player # a.player_color
    THEN [game |-> g, selection |-> a.selection, applied |-> FALSE]
    ELSE LET out == applied_if_valid(g, a,
                        Placement(to_hex(a.cursor_pos), Tile(bug, a.player_color)))
         IN  [out EXCEPT !.selection = a.selection]

\* the games the interface is started with (Default::default() or load_game)
\* and the colour of the human player
TuiStarts ==
    {[game |-> from_hive(white_covered, "White"), player_color |-> c] :
        c \in Colors}
    \cup {[game |-> from_hive_with_reserves(pillbug_and_grasshopper, "White",
                                             << >>, << >>),
            player_color |-> c] : c \in Colors}

TuiInit ==
    /\ \E start \in TuiStarts :
          /\ hive = start.game.hive
          /\ white_reserve = start.game.white_reserve
          /\ black_reserve = start.game.black_reserve
          /\ active_player = start.game.active_player
          /\ immobilized_piece = start.game.immobilized_piece
          /\ last_turn = start.game.last_turn
          /\ zobrist_hash = start.game.zobrist_hash
          /\ app = [cursor_pos |-> RowCol(0, 0), player_color |-> start.player_color,
                    selection |-> SelectionNone, returned |-> FALSE]
    /\ plies_left = MaxTuiPly
    /\ hex_map = << >>
    /\ original_map = << >>
    /\ ThreadsIdle
    /\ table_reads = {}

\* the loop of App::run is at its top with the game undecided
Running == ~app.returned /\ game_result(game).result = "None"

\* the game and the selection a handler leaves behind
Handled(out) ==
    /\ out.applied => plies_left > 0
    /\ hive' = out.game.hive
    /\ white_reserve' = out.game.white_reserve
    /\ black_reserve' = out.game.black_reserve
    /\ active_player' = out.game.active_player
    /\ immobilized_piece' = out.game.immobilized_piece
    /\ last_turn' = out.game.last_turn
    /\ zobrist_hash' = out.game.zobrist_hash
    /\ plies_left' = IF out.applied THEN plies_left - 1 ELSE plies_left
    /\ app' = [app EXCEPT !.selection = out.selection]
    /\ UNCHANGED <<canon_vars, thread_vars, table_reads>>

\* App::make_ai_move: the AI is to move and Ai::choose_turn returns one of
\* the turns generate_moves hands to the search
MakeAiMove ==
    /\ Running
    /\ active_player # app.player_color
    /\ \E turn \in turns(game) :
          /\ turn.type = "Placement" => turn.tile.bug \in PlacedBugs
          /\ Handled([game |-> with_turn_applied(game, turn),
                      selection |-> app.selection, applied |-> TRUE])

\* App::make_ai_move: Ai::choose_turn returns RanOutOfTime and run returns
AiRanOutOfTime ==
    /\ Running
    /\ active_player # app.player_color
    /\ app' = [app EXCEPT !.returned = TRUE]
    /\ UNCHANGED <<game_vars, canon_vars, thread_vars, table_reads>>

\* the human is to move and event::read returns a key press
KeyRead == Running /\ active_player = app.player_color

\* Left, Right, Up, Down: App::move_cursor
MoveCursor ==
    /\ KeyRead
    /\ \E step \in {-1, 1}, axis \in {"row", "col"} :
          LET dims == board_dimensions(game)
          IN  app' = [app EXCEPT !.cursor_pos =
                        IF axis = "col"
                        THEN [@ EXCEPT !.col = wrapping_add(@, step, dims.col_min,
                                                            dims.col_max)]
                        ELSE [@ EXCEPT !.row = wrapping_add(@, step, dims.row_min,
                                                            dims.row_max)]]
    /\ UNCHANGED <<game_vars, canon_vars, thread_vars, table_reads>>

\* Esc
KeyEsc ==
    /\ KeyRead
    /\ app' = [app EXCEPT !.selection = SelectionNone]
    /\ UNCHANGED <<game_vars, canon_vars, thread_vars, table_reads>>

\* Enter: App::handle_enter
KeyEnter ==
    /\ KeyRead
    /\ Handled(handle_enter(game, app))

\* a character key: App::place_piece
KeyChar ==
    /\ KeyRead
    /\ \E bug \in PlacedBugs : Handled(place_piece(game, app, bug))

\* F1: run returns the board
KeyF1 ==
    /\ KeyRead
    /\ app' = [app EXCEPT !.returned = TRUE]
    /\ UNCHANGED <<game_vars, canon_vars, thread_vars, table_reads>>

TuiNext ==
    \/ MakeAiMove
    \/ AiRanOutOfTime
    \/ MoveCursor
    \/ KeyEsc
    \/ KeyEnter
    \/ KeyChar
    \/ KeyF1

TuiSpec == TuiInit /\ [][TuiNext]_vars

\* The AI moves whenever it is to move (the loop calls make_ai_move before
\* it reads a key), and the human keeps pressing keys that move the cursor.
TuiFairSpec ==
    /\ TuiSpec
    /\ WF_vars(MakeAiMove)
    /\ WF_vars(MoveCursor)

\* ------------------------------------------------------------------ properties

\* the cells of the ground layer
ground_cells(H) == {hex \in DOMAIN H : hex[3] = 0}

\* the ground layer is one connected component under 6-neighbour adjacency
ground_connected(H) ==
    \/ ground_cells(H) = {}
    \/ LET c == CHOOSE x \in ground_cells(H) : TRUE
       IN  connected_to(H, at_height(c, -1), {c}, {c}) = ground_cells(H)

\* the turns generated in the current state
current_turns == turns(game)

\* C1 (one-hive): in every reached state with at least two tiles the occupied
\* ground-layer cells are connected under 6-neighbour adjacency.
C1_OneHive == Cardinality(DOMAIN hive) >= 2 => ground_connected(hive)

\* C2 (immobilization): when immobilized_piece = Some(x), turns() holds no Move
\* with from = x, whatever bug stands at x.
C2_ImmobilizedPieceStays ==
    \A x \in immobilized_piece :
        \A t \in current_turns : t.type = "Move" => t.from # x

\* C3 (queen mandate): with at most 11 bugs in the active reserve and the Queen
\* among them, every Placement of turns() places the Queen and turns() holds no Move.
C3_QueenMandate ==
    (Len(active_reserve(game)) <= 11 /\ contains(active_reserve(game), "Queen"))
        => \A t \in current_turns :
              /\ t.type # "Move"
              /\ t.type = "Placement" => t.tile.bug = "Queen"

\* C3 witness: after a turn, a player with three placements and no Queen is
\* offered the Queen.
C3_Witness ==
    /\ last_turn # {}
    /\ Len(active_reserve(game)) = 11
    /\ contains(active_reserve(game), "Queen")
    /\ \E t \in current_turns : t.type = "Placement" /\ t.tile.bug = "Queen"

\* C4: turns() holds no Move while the active player's Queen is in reserve.
C4_NoMoveBeforeQueen ==
    contains(active_reserve(game), "Queen")
        => \A t \in current_turns : t.type # "Move"

\* C4 witness: after a turn, the Queen is in reserve while a top tile of the
\* active player would have a move of its own.
C4_Witness ==
    /\ last_turn # {}
    /\ contains(active_reserve(game), "Queen")
    /\ \E hex \in toplevel_pieces(hive) :
          /\ hive[hex].color = active_player
          /\ moves_for_tile(game, hive[hex].bug, hex) # {}

\* C5 (skip uniqueness): turns() is never empty, it is exactly {Skip} when there
\* is neither a placement nor a move, and it holds no Skip otherwise.
C5_SkipUniqueness ==
    LET regular == placements(game, active_reserve(game)) \cup moves(game)
    IN  /\ current_turns # {}
        /\ regular = {} => current_turns = {Skip}
        /\ regular # {} => Skip \notin current_turns /\ current_turns = regular

\* C5 witness: a state reached by a regular turn whose only turn is Skip.
C5_Witness ==
    /\ current_turns = {Skip}
    /\ \E t \in last_turn : t.type # "Skip"

\* the words a turn XORs into the hash besides the side-to-move word
turn_delta(H, t) ==
    CASE t.type = "Placement" -> {table_value(t.hex, t.tile)}
      [] t.type = "Move" ->
            xor({table_value(t.from, H[t.from])}, {table_value(t.to, H[t.from])})
      [] t.type = "Skip" -> {}

\* C6 (Zobrist incrementality): every applied turn changes the hash by the
\* side-to-move word and the words of the tile it adds and removes, nothing else.
C6_ZobristIncremental ==
    [][\A t \in last_turn' :
          zobrist_hash' = xor(zobrist_hash, xor({black_to_move}, turn_delta(hive, t)))]_vars

\* C6 witness: a Move has been applied.
C6_Witness == \E t \in last_turn : t.type = "Move" /\ zobrist_hash # {}

\* the hash from scratch: the XOR of the words of all tiles, and of the
\* side-to-move word iff Black is to move
scratch_hash(H, player) ==
    {w \in {table_value(hex, H[hex]) : hex \in DOMAIN H} :
        Cardinality({hex \in DOMAIN H : table_value(hex, H[hex]) = w}) % 2 = 1}
    \cup (IF player = "Black" THEN {black_to_move} ELSE {})

\* C7 (Zobrist path-independence): the stored hash equals the from-scratch hash
\* of the board and the active player.
C7_ZobristFromScratch == zobrist_hash = scratch_hash(hive, active_player)

\* C7 witness: Black is to move after a Move and a Skip-free history of tiles.
C7_Witness ==
    /\ active_player = "Black"
    /\ \E t \in last_turn : t.type = "Move"
    /\ Cardinality(DOMAIN hive) >= 4

\* the colours whose Queen has all six ground-level neighbour cells occupied
surrounded_colors(H) ==
    {c \in Colors :
        \E hex \in DOMAIN H :
            /\ H[hex] = Tile("Queen", c)
            /\ \A d \in 1..6 : at_height(neighbor(hex, d), 0) \in DOMAIN H}

\* C8 (game_result): with L the colours whose Queen has all six ground-level
\* neighbour cells occupied, game_result is None when L is empty, Draw when both
\* Queens are in L, else Winner of the colour opposite to the one in L.
C8_GameResult ==
    LET L == surrounded_colors(hive)
    IN  game_result(game) =
           IF L = {} THEN [result |-> "None"]
           ELSE IF L = Colors THEN [result |-> "Draw"]
           ELSE [result |-> "Winner", color |-> opposite(CHOOSE c \in L : TRUE)]

\* C9: every applied turn flips the active player, and leaves immobilized_piece
\* = Some(to) iff it is a Move with freezes_piece, None otherwise.
C9_FlipAndFreeze ==
    [][/\ active_player' = opposite(active_player)
       /\ \A t \in last_turn' :
             immobilized_piece' =
                IF t.type = "Move" /\ t.freezes_piece THEN {t.to} ELSE {}]_vars

\* C9 witness: a throw has just been applied and its piece is immobilized.
C9_Witness ==
    \E t \in last_turn :
        t.type = "Move" /\ t.freezes_piece /\ immobilized_piece = {t.to}

\* the colour on top of the column of a cell, as an Option: the tile under the
\* lowest unoccupied height
top_color(H, cell) ==
    LET k == CHOOSE j \in 0..Cardinality(DOMAIN H) :
                /\ at_height(cell, j) \notin DOMAIN H
                /\ \A i \in 0..(j - 1) : at_height(cell, i) \in DOMAIN H
    IN  IF k = 0 THEN {} ELSE {H[at_height(cell, k - 1)].color}

\* the cells where the player may place
legal_placement_cells(H, player) ==
    {c \in UNION {neighbors(base_level(hex)) : hex \in DOMAIN H} :
        /\ c \notin DOMAIN H
        /\ \E hex \in DOMAIN H : H[hex].color = player /\ is_adjacent(hex, c)
        /\ \A n \in neighbors(c) : opposite(player) \notin top_color(H, n)}

\* the cells of the Placement turns generated in the current state
placed_cells == {t.hex : t \in {u \in current_turns : u.type = "Placement"}}

\* C10 (placement legality) as stated: with two or more tiles on the board, the
\* cells of the Placement turns are exactly the unoccupied ground cells next to
\* a tile of the active player and next to no column topped by the opponent,
\* and none is above the ground.
C10_PlacementCellsAnyReserve ==
    Cardinality(DOMAIN hive) >= 2
        => /\ placed_cells = legal_placement_cells(hive, active_player)
           /\ \A c \in placed_cells : c[3] = 0

\* C10 (placement legality) for a player with a bug left to place: with two or
\* more tiles on the board and a non-empty active reserve, the cells of the
\* Placement turns are exactly the unoccupied ground cells next to a tile of
\* the active player and next to no column topped by the opponent, and none is
\* above the ground.
C10_PlacementCells ==
    (Cardinality(DOMAIN hive) >= 2 /\ Len(active_reserve(game)) > 0)
        => /\ placed_cells = legal_placement_cells(hive, active_player)
           /\ \A c \in placed_cells : c[3] = 0

\* C10 witness: a tile lies under a tile of the other colour, and a cell next
\* to that column is offered for placement.
C10_Witness ==
    \E hex \in DOMAIN hive :
        /\ last_turn # {}
        /\ hex[3] > 0
        /\ at_height(hex, hex[3] - 1) \in DOMAIN hive
        /\ hive[at_height(hex, hex[3] - 1)].color # hive[hex].color
        /\ \E t \in current_turns :
              t.type = "Placement" /\ is_adjacent(t.hex, hex)

\* the Placements an opening position should offer: every non-Queen bug kind
\* of the reserve at the origin (empty hive) or at each neighbour of the tile
opening_placements(H, reserve, player) ==
    {Placement(cell, Tile(bug, player)) :
        cell \in (IF DOMAIN H = {} THEN {<<0, 0, 0>>}
                  ELSE UNION {neighbors(hex) : hex \in DOMAIN H}),
        bug \in items(reserve) \ {"Queen"}}

\* C11 (opening placements): with at most one tile on the board, turns() holds
\* exactly the Placements of every non-Queen bug kind of the active reserve at
\* the origin (empty hive) or at each of the six neighbours of the tile, each of
\* them yielded exactly once.
C11_OpeningPlacements ==
    Cardinality(DOMAIN hive) <= 1
        => LET yielded == placements_yielded(game, active_reserve(game))
           IN  /\ current_turns = opening_placements(hive, active_reserve(game), active_player)
               /\ DOMAIN yielded = current_turns
               /\ \A t \in DOMAIN yielded : yielded[t] = 1

\* C12 (no floating tiles): every occupied cell above the ground has the cell
\* below it occupied, and every generated Move lands at the stack height of its
\* destination column.
C12_NoFloatingTiles ==
    /\ \A hex \in DOMAIN hive :
          hex[3] > 0 => at_height(hex, hex[3] - 1) \in DOMAIN hive
    /\ \A t \in current_turns :
          t.type = "Move" => t.to[3] = stack_height(hive, t.to)

\* C13 (only the top tile moves): every Move of turns() starts from the topmost
\* occupied cell of its column, and no Move, own or throw, starts from a tile
\* that has a tile above it.
C13_OnlyTopTileMoves ==
    /\ \A t \in current_turns :
          t.type = "Move" => stack_height(hive, t.from) = t.from[3] + 1
    /\ \A hex \in DOMAIN hive :
          at_height(hex, hex[3] + 1) \in DOMAIN hive
              => \A t \in current_turns : t.type = "Move" => t.from # hex

\* C13 witness: after a turn, the active player, Queen placed, has a covered
\* tile that would have moves of its own if it were asked for them.
C13_Witness ==
    /\ last_turn # {}
    /\ ~contains(active_reserve(game), "Queen")
    /\ \E hex \in DOMAIN hive :
          /\ hive[hex].color = active_player
          /\ at_height(hex, hex[3] + 1) \in DOMAIN hive
          /\ moves_for_tile(game, hive[hex].bug, hex) # {}

\* C14: when the previous turn was a Move to y, no throw (Move with
\* freezes_piece) of turns() starts from y.
C14_NoThrowOfPieceJustMoved ==
    \A lt \in last_turn :
        lt.type = "Move"
            => \A t \in current_turns :
                  (t.type = "Move" /\ t.freezes_piece) => t.from # lt.to

\* C14 witness: the piece that just moved stands next to a Pillbug of the active
\* player, which could throw it had it not just moved.
C14_Witness ==
    /\ ~contains(active_reserve(game), "Queen")
    /\ \E lt \in last_turn :
          /\ lt.type = "Move"
          /\ \E p \in toplevel_pieces(hive) :
                /\ hive[p] = Tile("Pillbug", active_player)
                /\ \E t \in pillbug_moves([game EXCEPT !.last_turn = {}], p) :
                      t.freezes_piece /\ t.from = lt.to

\* the cells next to both a and b, at the height of a
shoulders(a, b) == {c \in neighbors(a) : is_adjacent(c, b) /\ c # b}

\* the throws a ground-level Pillbug at P should have: pairs of a neighbouring
\* column n of height 1 that did not just move, can be lifted over a free
\* shoulder without breaking the hive, and a free ground neighbour f that can
\* be reached from above P over a free shoulder
legal_throws(g, P) ==
    {Move(n, f, TRUE) :
        n \in {x \in neighbors(P) :
                 /\ x \in DOMAIN g.hive
                 /\ at_height(x, 1) \notin DOMAIN g.hive
                 /\ \A lt \in g.last_turn : lt.type = "Move" => lt.to # x
                 /\ \E c \in shoulders(at_height(x, 1), at_height(P, 1)) :
                       c \notin DOMAIN g.hive
                 /\ ~move_would_break_hive(g.hive, x, at_height(P, 1))},
        f \in {y \in neighbors(P) :
                 /\ y \notin DOMAIN g.hive
                 /\ \E c \in shoulders(at_height(P, 1), at_height(y, 1)) :
                       c \notin DOMAIN g.hive}}

\* C15 (throw legality): for every ground-level Pillbug, the Moves with
\* freezes_piece that pillbug_moves yields are exactly the legal throws.
C15_ThrowLegality ==
    \A P \in DOMAIN hive :
        (hive[P].bug = "Pillbug" /\ P[3] = 0)
            => {t \in pillbug_moves(game, P) : t.freezes_piece} = legal_throws(game, P)

\* C15 witness: after a turn, a ground-level Pillbug has a throw, and a
\* neighbouring column of height 1 that it cannot lift because both shoulders
\* of the way up are occupied.
C15_Witness ==
    /\ last_turn # {}
    /\ \E P \in DOMAIN hive :
          /\ hive[P].bug = "Pillbug" /\ P[3] = 0
          /\ \E t \in pillbug_moves(game, P) : t.freezes_piece
          /\ \E n \in neighbors(P) :
                /\ n \in DOMAIN hive
                /\ at_height(n, 1) \notin DOMAIN hive
                /\ shoulders(at_height(n, 1), at_height(P, 1)) \subseteq DOMAIN hive

\* the top tiles of the active player that have the Pillbug's ability: its
\* Pillbugs, and its Mosquitos next to a column topped by a Pillbug
throwers(g) ==
    {p \in toplevel_pieces(g.hive) :
        /\ g.hive[p].color = g.active_player
        /\ \/ g.hive[p].bug = "Pillbug"
           \/ /\ g.hive[p].bug = "Mosquito"
              /\ \E n \in topmost_occupied_neighbors(g.hive, p) :
                    g.hive[n].bug = "Pillbug"}

\* C16 (freezes_piece): a Move of turns() with freezes_piece relocates a piece
\* next to a thrower of the active player to another cell next to it; a Move
\* without it moves a top tile of the active player; and whatever a thrower
\* relocates besides itself carries freezes_piece.
C16_FreezesFlag ==
    LET generated == current_turns
        thrown == UNION {{t \in pillbug_moves(game, p) : t.from # p} :
                           p \in throwers(game)}
    IN  /\ \A t \in generated :
              t.type = "Move"
                  => IF t.freezes_piece
                     THEN /\ t \in thrown
                          /\ \E p \in throwers(game) :
                                is_adjacent(p, t.from) /\ is_adjacent(p, t.to)
                     ELSE /\ t.from \in toplevel_pieces(hive)
                          /\ hive[t.from].color = active_player
        /\ ~contains(active_reserve(game), "Queen")
              => /\ thrown \subseteq generated
                 /\ \A t \in thrown : t.freezes_piece

\* C16 witness: after a turn, turns() holds a throw of an opponent's piece and
\* an own move without freezes_piece.
C16_Witness ==
    /\ last_turn # {}
    /\ \E t \in current_turns :
          /\ t.type = "Move" /\ t.freezes_piece
          /\ hive[t.from].color # active_player
    /\ \E t \in current_turns : t.type = "Move" /\ ~t.freezes_piece

\* the immobilized hex, if a top-level Pillbug of the active player stands on it
immobilized_pillbug ==
    {x \in immobilized_piece :
        /\ x \in toplevel_pieces(hive)
        /\ hive[x] = Tile("Pillbug", active_player)}

\* C17: an immobilized Pillbug of the active player has no throw and no slide:
\* pillbug_moves yields nothing for it.
C17_ImmobilizedPillbugIdle ==
    \A x \in immobilized_pillbug : pillbug_moves(game, x) = {}

\* C18: a Pillbug of the active player that stands on the immobilized hex still
\* throws: every legal throw over it is accepted by turn_is_valid, and it has
\* no slide of its own.
C18_ImmobilizedPillbugThrows ==
    \A x \in immobilized_pillbug :
        (x[3] = 0 /\ ~contains(active_reserve(game), "Queen"))
            => /\ \A t \in legal_throws(game, x) : turn_is_valid(game, t)
               /\ \A t \in pillbug_moves(game, x) : t.from # x

\* C18 witness: the Pillbug thrown on the previous ply has a piece to throw.
C18_Witness ==
    \E x \in immobilized_pillbug :
        /\ \E lt \in last_turn : lt.type = "Move" /\ lt.freezes_piece /\ lt.to = x
        /\ legal_throws(game, x) # {}

\* C19: for a Mosquito that is the top tile of a stack at h > 0, mosquito_moves
\* yields exactly the moves beetle_moves yields from the same hex.
C19_MosquitoOnStackIsBeetle ==
    \A hex \in toplevel_pieces(hive) :
        (hive[hex].bug = "Mosquito" /\ hex[3] > 0)
            => mosquito_moves(game, hex) = beetle_moves(game, hex)

\* the bug on top of the column of a cell, as an Option: the tile under the
\* lowest unoccupied height
top_bug(H, cell) ==
    LET k == CHOOSE j \in 0..Cardinality(DOMAIN H) :
                /\ at_height(cell, j) \notin DOMAIN H
                /\ \A i \in 0..(j - 1) : at_height(cell, i) \in DOMAIN H
    IN  IF k = 0 THEN {} ELSE {H[at_height(cell, k - 1)].bug}

\* the bug kinds a Mosquito at hex may copy: those on top of the neighbouring
\* columns, Mosquitos excepted
copied_kinds(H, hex) ==
    UNION {top_bug(H, n) : n \in neighbors(hex)} \ {"Mosquito"}

\* the ground-level Mosquitos that are not immobilized
free_ground_mosquitos ==
    {hex \in DOMAIN hive :
        hive[hex].bug = "Mosquito" /\ hex[3] = 0 /\ immobilized_piece # {hex}}

\* C20: a ground-level Mosquito that is not immobilized yields exactly the union
\* of the moves that each bug kind on top of a neighbouring column, Mosquitos
\* excepted, generates from the Mosquito's hex; none when there is no such kind.
C20_MosquitoCopiesNeighbours ==
    \A hex \in free_ground_mosquitos :
        /\ mosquito_moves(game, hex) =
              UNION {moves_for_tile(game, kind, hex) : kind \in copied_kinds(hive, hex)}
        /\ (\A n \in topmost_occupied_neighbors(hive, hex) : hive[n].bug = "Mosquito")
              => mosquito_moves(game, hex) = {}

\* C20 witness: after a throw, a Mosquito next to the immobilized Pillbug and to
\* a Queen has a throw of its own, and another Mosquito has only a Mosquito for
\* neighbour.
C20_Witness ==
    /\ \E hex \in free_ground_mosquitos :
          /\ \E x \in immobilized_piece : is_adjacent(x, hex) /\ hive[x].bug = "Pillbug"
          /\ {"Queen", "Pillbug"} \subseteq copied_kinds(hive, hex)
          /\ \E t \in mosquito_moves(game, hex) : t.freezes_piece
    /\ \E hex \in free_ground_mosquitos :
          /\ topmost_occupied_neighbors(hive, hex) # {}
          /\ copied_kinds(hive, hex) = {}

\* the height at which the gate of a Beetle's step from f to the column n is
\* checked
gate_height(H, f, n) == Max(f[3], stack_height(H, n))

\* the destinations a Beetle at f should have
beetle_destinations(H, f) ==
    {at_height(n, stack_height(H, n)) :
        n \in {m \in neighbors(f) :
                 /\ \E c \in shoulders(at_height(f, gate_height(H, f, m)),
                                       at_height(m, gate_height(H, f, m))) :
                       c \notin DOMAIN H
                 /\ ~move_would_break_hive(H, f, at_height(m, stack_height(H, m)))}}

\* the top-level tiles of a bug kind that are not immobilized
free_top_tiles(bug) ==
    {hex \in toplevel_pieces(hive) :
        hive[hex].bug = bug /\ immobilized_piece # {hex}}

\* C21 (Beetle moves): the Moves of a Beetle lead exactly to the tops of the
\* neighbouring columns whose gate, at the higher of the Beetle's height and the
\* column's height, has a free shoulder, and that do not break the hive.
C21_BeetleMoves ==
    \A f \in free_top_tiles("Beetle") :
        beetle_moves(game, f) =
            {Move(f, to, FALSE) : to \in beetle_destinations(hive, f)}

\* C21 witness: after a turn, a Beetle has a destination, and a neighbouring
\* column it cannot step to because both shoulders are occupied above the ground.
C21_Witness ==
    /\ last_turn # {}
    /\ \E f \in free_top_tiles("Beetle") :
          /\ beetle_moves(game, f) # {}
          /\ \E m \in neighbors(f) :
                /\ gate_height(hive, f, m) > 0
                /\ shoulders(at_height(f, gate_height(hive, f, m)),
                             at_height(m, gate_height(hive, f, m))) \subseteq DOMAIN hive


RECURSIVE joined(_, _, _)
\* the cells of the set `cells` joined to the frontier by a chain of adjacent
\* cells of the set
joined(cells, frontier, seen) ==
    LET next == {c \in cells \ seen : \E d \in frontier : is_adjacent(c, d)}
    IN  IF next = {} THEN seen ELSE joined(cells, next, seen \cup next)

\* the ground cells joined to cell a by a chain of adjacent ground cells
component(H, a) == joined(ground_cells(H), {a}, {a})

\* the same chain never passing through the ground cell f
component_without(H, f, a) == joined(ground_cells(H) \ {f}, {a}, {a})

\* the ground layer is not empty and is one component
one_component(H) ==
    /\ ground_cells(H) # {}
    /\ component(H, CHOOSE a \in ground_cells(H) : TRUE) = ground_cells(H)

\* f is a cut vertex of the ground layer: taking it away separates two cells
\* that were joined
is_cut_vertex(H, f) ==
    \E a \in ground_cells(H) \ {f} :
        component_without(H, f, a) # component(H, a) \ {f}

\* the cells a sliding piece at ground cell f can step to: unoccupied, next to
\* f, with one shoulder free (the gate is open) and one shoulder occupied
\* (contact is kept during the step)
ground_steps(H, f) ==
    {n \in neighbors(f) \ DOMAIN H :
        /\ \E c \in shoulders(f, n) : c \notin DOMAIN H
        /\ \E c \in shoulders(f, n) : c \in DOMAIN H}

\* the destinations a Queen at ground cell f should have
queen_destinations(H, f) ==
    IF is_cut_vertex(H, f) THEN {} ELSE ground_steps(H, f)

\* C22 (Queen moves): a top-level Queen on the ground that is not immobilized
\* moves exactly to the unoccupied adjacent ground cells whose gate is open,
\* that share an occupied ground neighbour with the Queen's cell, provided the
\* Queen is not a cut vertex of the hive; a cut-vertex Queen has no moves.
C22_QueenMoves ==
    \A f \in free_top_tiles("Queen") :
        f[3] = 0 =>
            queen_moves(game, f) =
                {Move(f, to, FALSE) : to \in queen_destinations(hive, f)}

\* a Queen that has a move and also an unoccupied neighbour behind a closed gate
C22_Witness ==
    /\ last_turn # {}
    /\ \E f \in free_top_tiles("Queen") :
          /\ f[3] = 0
          /\ queen_moves(game, f) # {}
          /\ \E n \in neighbors(f) \ DOMAIN hive :
                shoulders(f, n) \subseteq DOMAIN hive


\* one slide a -> b of a piece that started at ground cell origin, the origin
\* counted as empty: b is free, the gate is open (a shoulder is free) and
\* contact is kept (a shoulder is occupied by a tile other than the origin)
slide_step(H, origin, a, b) ==
    LET others == DOMAIN H \ {origin}
    IN  /\ b \in neighbors(a) \ others
        /\ \E c \in shoulders(a, b) : c \notin others
        /\ \E c \in shoulders(a, b) : c \in others

RECURSIVE slide_paths(_, _, _, _)
\* the paths of `steps` more slides that extend the given paths without
\* revisiting a cell
slide_paths(H, origin, paths, steps) ==
    IF steps = 0 THEN paths
    ELSE slide_paths(H, origin,
             UNION {{Append(p, b) :
                        b \in {n \in neighbors(p[Len(p)]) :
                                 /\ \A i \in 1..Len(p) : p[i] # n
                                 /\ slide_step(H, origin, p[Len(p)], n)}} :
                    p \in paths},
             steps - 1)

\* the destinations a Spider at ground cell f should have
spider_destinations(H, f) ==
    IF is_cut_vertex(H, f) THEN {}
    ELSE {p[4] : p \in slide_paths(H, f, {<<f>>}, 3)}

\* C23 (Spider moves): a top-level Spider on the ground that is not immobilized
\* moves exactly to the end cells of the paths of three slides from its cell
\* that never revisit a cell, each slide through an open gate and in contact
\* with the hive, the origin counted as empty, and none if the Spider is a cut
\* vertex.
C23_SpiderMoves ==
    \A f \in free_top_tiles("Spider") :
        f[3] = 0 =>
            spider_moves(game, f) =
                {Move(f, to, FALSE) : to \in spider_destinations(hive, f)}


\* the destinations an Ant at ground cell f should have: the closure of the
\* cells already reached under one more slide
RECURSIVE slide_closure(_, _, _)
slide_closure(H, origin, reached) ==
    LET more == {b \in UNION {neighbors(a) : a \in reached \cup {origin}} :
                    /\ b # origin
                    /\ b \notin reached
                    /\ \E a \in reached \cup {origin} : slide_step(H, origin, a, b)}
    IN  IF more = {} THEN reached
        ELSE slide_closure(H, origin, reached \cup more)

ant_destinations(H, f) ==
    IF is_cut_vertex(H, f) THEN {} ELSE slide_closure(H, f, {})

gate_open(H, a, b, h) ==
    \E c \in shoulders(at_height(a, h), at_height(b, h)) : c \notin DOMAIN H

\* the climbs of a Ladybug that started at f and stands on column c: onto the
\* top of a neighbouring occupied column other than its own, the gate taken at
\* the height it climbs to
ladybug_climbs(H, f, c) ==
    {at_height(n, stack_height(H, n)) :
        n \in {m \in neighbors(c) :
                 /\ stack_height(H, m) > 0
                 /\ base_level(m) # base_level(f)
                 /\ gate_open(H, c, m, stack_height(H, m))}}

\* the steps down from the top t: to an unoccupied ground neighbour of the
\* column, the gate taken at the height of t
ladybug_descents(H, t) ==
    {n \in neighbors(base_level(t)) : n \notin DOMAIN H /\ gate_open(H, t, n, t[3])}

\* the destinations a Ladybug at f should have
ladybug_destinations(H, f) ==
    IF is_cut_vertex(H, f) THEN {}
    ELSE UNION {ladybug_descents(H, second) :
                    second \in UNION {ladybug_climbs(H, f, first) :
                                         first \in ladybug_climbs(H, f, f)}}

\* C25 (Ladybug moves): a top-level Ladybug that is not immobilized moves
\* exactly to the end cells of the paths of two climbs onto neighbouring
\* occupied columns, never its own, and one step down to an unoccupied ground
\* cell, each gate taken at the height climbed to (for the step down: the
\* height stood on), and none if taking the Ladybug away disconnects the hive.
C25_LadybugMoves ==
    \A f \in free_top_tiles("Ladybug") :
        ladybug_moves(game, f) =
            {Move(f, to, FALSE) : to \in ladybug_destinations(hive, f)}

\* a Ladybug with moves beside a column of height two or more
C25_Witness ==
    /\ last_turn # {}
    /\ \E f \in free_top_tiles("Ladybug") :
          /\ ladybug_moves(game, f) # {}
          /\ \E n \in neighbors(f) : stack_height(hive, n) >= 2


\* the cell k steps from f in direction d
cell_along(f, d, k) == <<f[1] + k * vector[d][1], f[2] + k * vector[d][2], f[3]>>

\* the first unoccupied cell met when stepping from f in direction d
first_free_cell(H, f, d) ==
    LET k == CHOOSE j \in 1..(Cardinality(DOMAIN H) + 1) :
                 /\ cell_along(f, d, j) \notin DOMAIN H
                 /\ \A i \in 1..(j - 1) : cell_along(f, d, i) \in DOMAIN H
    IN  cell_along(f, d, k)

\* the destinations a Grasshopper at ground cell f should have
grasshopper_destinations(H, f) ==
    IF is_cut_vertex(H, f) THEN {}
    ELSE {first_free_cell(H, f, d) : d \in {e \in 1..6 : neighbor(f, e) \in DOMAIN H}}

cut_vertices(H) == {f \in ground_cells(H) : is_cut_vertex(H, f)}

\* C27 (articulation points): for a non-empty hive with a connected ground
\* layer, articulation_points returns exactly the cut vertices of the ground
\* layer, whichever ground cell the search starts from.
C27_ArticulationPoints ==
    one_component(hive) =>
        \A found \in articulation_points(hive) : found = cut_vertices(hive)

\* a connected ground layer with a cut vertex and, elsewhere, a cell with two
\* ground neighbours that is none (it lies on a cycle)
C27_Witness ==
    /\ last_turn # {}
    /\ one_component(hive)
    /\ cut_vertices(hive) # {}
    /\ \E f \in ground_cells(hive) \ cut_vertices(hive) :
          Cardinality(occupied_neighbors_at_same_level(hive, f)) >= 2


\* destinations that are no pure ground slide from the ground cell from: the
\* cells above the neighbouring ground cells, the ground cells two steps away
\* in a straight line, and the cell far above from that grasshopper_moves passes
far_destinations(from) ==
    {at_height(n, 1) : n \in neighbors(from)}
        \cup {cell_along(from, d, 2) : d \in 1..6}
        \cup {at_height(from, 100)}

height_profile(map) ==
    {<<h, v, Cardinality({hex \in DOMAIN map : hex[3] = h /\ map[hex] = v})>> :
        h \in 0..MaxCanonHeight, v \in CanonValues}

\* C28 (canonicalizer invariance): a map made from another by translations in
\* q and r and rotations by multiples of 60 degrees has the same canonical form,
\* and the canonical form keeps every entry's height.
C28_CanonicalFormInvariant ==
    /\ canonicalize(hex_map) = canonicalize(original_map)
    /\ height_profile(canonicalize(hex_map)) = height_profile(hex_map)

\* a map of two entries or more, one above the ground, that has been rotated:
\* no translation alone makes it from the original
C28_Witness ==
    /\ Cardinality(DOMAIN hex_map) >= 2
    /\ \E hex \in DOMAIN hex_map : hex[3] > 0
    /\ \A dq \in -(2 * MaxCanonAxis)..(2 * MaxCanonAxis),
          dr \in -(2 * MaxCanonAxis)..(2 * MaxCanonAxis) :
            hex_map # translated_map(original_map, dq, dr, 360)

\* ------------------------------------------------------------------ C29
\* the hash of a position as a thread computes it through a table reference:
\* the words of that table in the slots ZobristTable::hash combines
hash_through(table, H, player) ==
    {<<table, slot>> : slot \in zobrist_table_hash(H, player)}

\* every reference any thread has received from ZobristTable::get
all_table_refs == UNION {table_refs[t] : t \in Threads}

\* every table a run of ZobristTable::new has produced, with the thread that ran it
all_built == UNION {{<<t, table>> : table \in built[t]} : t \in Threads}

\* C29: ZobristTable::new runs at most once however the calls of
\* ZobristTable::get interleave; every reference a caller receives is to the
\* one table stored in the completed lock, so all callers hold the same table
\* and the hashes two threads compute for the same position are equal.
C29_TableInitializedOnce ==
    /\ Cardinality(all_built) <= 1
    /\ Cardinality(all_table_refs) <= 1
    /\ all_table_refs # {} =>
          /\ ZOBRIST_TABLE.state = "complete"
          /\ ZOBRIST_TABLE.value = all_table_refs
          /\ all_table_refs = {b[2] : b \in all_built}
    /\ \A t \in Threads, u \in Threads :
          \A a \in table_refs[t], b \in table_refs[u] :
             /\ hash_through(a, queens_nearly_surrounded, "White")
                  = hash_through(b, queens_nearly_surrounded, "White")
             /\ hash_through(a, beetle_gate, "Black")
                  = hash_through(b, beetle_gate, "Black")

\* the first call was raced: one thread ran ZobristTable::new and holds its
\* reference, a second that never ran it holds a reference too, and a third
\* that called while the first was running is still blocked
C29_Witness ==
    \E t \in Threads, u \in Threads, w \in Threads :
       /\ built[t] # {} /\ table_refs[t] # {}
       /\ built[u] = {} /\ table_refs[u] # {}
       /\ built[w] = {} /\ pc[w] = "wait"

\* ------------------------------------------------------------------ C31
\* the cells a slide can start from: the tiles of the hive and the cells
\* beside them at their height
slide_origins(H) == DOMAIN H \cup UNION {neighbors(x) : x \in DOMAIN H}

\* the shoulder rule: the neighbours n of x that are free, with a free
\* shoulder of the step x -> n, where the cell ignore_hex counts as free
shoulder_rule_slides(H, x, ignore_hex) ==
    LET free(c) == ~is_occupied(H, c) \/ {c} = ignore_hex
    IN  {n \in neighbors(x) : free(n) /\ \E c \in shoulders(x, n) : free(c)}

\* C31: on every board, for every cell x and every ignore_hex (none, or an
\* occupied cell next to x), allowed_slides(x, ignore_hex) is as a set
\* exactly the free neighbours of x with a free shoulder, ignore_hex counting
\* as free, in all six directions including the step between the last and
\* the first direction.
C31_AllowedSlidesShoulderRule ==
    \A x \in slide_origins(hive) :
       \A ignore_hex \in {{}} \cup {{n} : n \in neighbors(x) \cap DOMAIN hive} :
          allowed_slides(game, x, ignore_hex)
             = shoulder_rule_slides(hive, x, ignore_hex)

\* the same with no ignore_hex: here allowed_slides and the shoulder rule agree
C31_AllowedSlidesNoIgnore ==
    \A x \in slide_origins(hive) :
       allowed_slides(game, x, {}) = shoulder_rule_slides(hive, x, {})

\* ------------------------------------------------------------------ C32
\* C32: for every tile `from` of the hive and each of the six unit steps to
\* a neighbour `to`, the two cells slide_is_allowed inspects are two
\* different cells and are exactly the cells at that height next to both
\* `from` and `to`; and slide_is_allowed gives the same answer for the step
\* from -> to and for the step to -> from.
C32_ShoulderCells ==
    \A from \in DOMAIN hive :
       \A to \in neighbors(from) :
          /\ counter_clockwise_neighbor(from, to) # clockwise_neighbor(from, to)
          /\ {counter_clockwise_neighbor(from, to), clockwise_neighbor(from, to)}
                = {c \in neighbors(from) : c \in neighbors(to)}
          /\ slide_is_allowed(game, from, to) = slide_is_allowed(game, to, from)

\* a tile stands before a closed gate: a free neighbouring cell with both
\* shoulder cells occupied, and before an open one with one shoulder occupied
C32_Witness ==
    \E from \in DOMAIN hive :
       /\ \E to \in neighbors(from) :
             /\ ~is_occupied(hive, to)
             /\ ~slide_is_allowed(game, from, to)
       /\ \E to \in neighbors(from) :
             /\ ~is_occupied(hive, to)
             /\ is_occupied(hive, counter_clockwise_neighbor(from, to))
             /\ ~is_occupied(hive, clockwise_neighbor(from, to))

\* ------------------------------------------------------------------ C33
\* C33: every read of table_value for a tile and a hex with q and r between
\* MIN_AXIS_VALUE and MAX_AXIS_VALUE and h between MIN_HEIGHT and MAX_HEIGHT
\* indexes an entry inside the piece table, and two reads with different
\* (tile, hex) index different entries.
C33_TableIndexing ==
    /\ \A read \in table_reads :
          table_value(read.hex, read.tile) \in ZobristPieceTable
    /\ \A a \in table_reads, b \in table_reads :
          a # b => table_value(a.hex, a.tile) # table_value(b.hex, b.tile)

\* the reads made so far are all inside the piece table
C33_InBounds ==
    \A read \in table_reads :
       table_value(read.hex, read.tile) \in ZobristPieceTable

\* the reads made so far hit pairwise different entries
C33_NoSharedEntry ==
    \A a \in table_reads, b \in table_reads :
       a # b => table_value(a.hex, a.tile) # table_value(b.hex, b.tile)

on_board(H, bug, color) ==
    Cardinality({hex \in DOMAIN H : H[hex] = Tile(bug, color)})

\* for each colour and bug, reserve plus board is the default reserve
pieces_conserved(H, white, black) ==
    \A bug \in Bugs :
       /\ count(white, bug) + on_board(H, bug, "White") = count(DEFAULT_RESERVE, bug)
       /\ count(black, bug) + on_board(H, bug, "Black") = count(DEFAULT_RESERVE, bug)

\* a board from_hive accepts: no more tiles of a bug and colour than the
\* default reserve holds
within_default_reserve(H) ==
    \A bug \in Bugs, color \in Colors :
       on_board(H, bug, color) <= count(DEFAULT_RESERVE, bug)

\* what one applied turn does to the reserves
reserves_after_turn ==
    LET turn == CHOOSE t \in last_turn' : TRUE
        active == active_reserve(game)
        active_after == IF active_player = "White" THEN white_reserve'
                        ELSE black_reserve'
    IN  IF turn.type = "Placement"
        THEN /\ \A bug \in Bugs :
                   count(active_after, bug)
                      = count(active, bug) - (IF bug = turn.tile.bug THEN 1 ELSE 0)
             /\ active_player = "White" => black_reserve' = black_reserve
             /\ active_player = "Black" => white_reserve' = white_reserve
        ELSE /\ white_reserve' = white_reserve
             /\ black_reserve' = black_reserve

\* C35: from_hive on a board gives reserves that, together with the board's
\* tiles, make up the default reserve for each colour; a turn applied to a
\* state where reserve plus board is the default reserve leads to a state
\* where it still is; a Placement takes exactly one instance of the placed
\* bug out of the active reserve and leaves the other reserve alone; Move and
\* Skip change no reserve.
C35_PieceConservation ==
    [][/\ within_default_reserve(hive) =>
             LET g == from_hive(hive, active_player)
             IN  pieces_conserved(hive, g.white_reserve, g.black_reserve)
       /\ pieces_conserved(hive, white_reserve, black_reserve) =>
             pieces_conserved(hive', white_reserve', black_reserve')
       /\ reserves_after_turn]_vars

\* a Placement was applied in a game started by from_hive from a board
\* position, and reserve plus board is the default reserve
C35_Witness ==
    /\ pieces_conserved(hive, white_reserve, black_reserve)
    /\ \E turn \in last_turn : turn.type = "Placement"
    /\ Cardinality(DOMAIN hive) > MaxPly

\* ------------------------------------------------------------------ C36
\* C36: a player with ten or fewer bugs in reserve, that is with four or more
\* pieces placed, does not have the Queen in reserve.
C36_QueenPlacedByFourth ==
    /\ Len(white_reserve) <= Len(DEFAULT_RESERVE) - 4 => ~contains(white_reserve, "Queen")
    /\ Len(black_reserve) <= Len(DEFAULT_RESERVE) - 4 => ~contains(black_reserve, "Queen")

\* a player who had placed three pieces without the Queen has made the fourth
\* placement
C36_Witness ==
    /\ \E turn \in last_turn :
          /\ turn.type = "Placement"
          /\ turn.tile.bug = "Queen"
    /\ Len(active_reserve([game EXCEPT !.active_player = opposite(active_player)]))
          = Len(DEFAULT_RESERVE) - 4
    /\ on_board(hive, "Grasshopper", opposite(active_player)) = 3

\* ------------------------------------------------------------------ C37
\* a turn with its hexes rotated about the origin
rotated_turn(turn, degrees) ==
    CASE turn.type = "Placement" ->
             Placement(rotated_by(turn.hex, degrees), turn.tile)
      [] turn.type = "Move" ->
             Move(rotated_by(turn.from, degrees), rotated_by(turn.to, degrees),
                  turn.freezes_piece)
      [] turn.type = "Skip" -> Skip

\* a board with its hexes rotated about the origin
rotated_hive(H, degrees) ==
    LET back(hex) == CHOOSE x \in DOMAIN H : rotated_by(x, degrees) = hex
    IN  [hex \in {rotated_by(x, degrees) : x \in DOMAIN H} |-> H[back(hex)]]

\* a state with its board, immobilized piece and last turn rotated
rotated_game(g, degrees) ==
    [g EXCEPT !.hive = rotated_hive(g.hive, degrees),
              !.immobilized_piece = {rotated_by(x, degrees) : x \in g.immobilized_piece},
              !.last_turn = {rotated_turn(t, degrees) : t \in g.last_turn}]

\* C37: for every reached state and every rotation by a multiple of 60
\* degrees, turns() of the rotated state is the set of rotated turns of
\* turns() of the state.
C37_RotationInvariantTurns ==
    \A i \in 1..Len(RotationDegrees) :
       turns(rotated_game(game, RotationDegrees[i]))
          = {rotated_turn(t, RotationDegrees[i]) : t \in turns(game)}

\* ------------------------------------------------------------------ C38
\* C38: for every hex x of the board or beside it, every turn
\* moves_for_piece(x) yields is a member of turns() (turn_is_valid accepts
\* it), and moves_for_piece yields nothing for a hex whose top tile belongs
\* to the player who is not to move.
C38_MovesForPieceAreTurns ==
    \A x \in slide_origins(hive) :
       LET yielded == moves_for_piece(game, x)
       IN  /\ \A turn \in yielded : turn_is_valid(game, turn)
           /\ (x \in toplevel_pieces(hive) /\ hive[x].color # active_player)
                 => yielded = {}

\* the same for the hexes whose top tile belongs to the player to move
C38_OwnPieces ==
    \A x \in toplevel_pieces(hive) :
       hive[x].color = active_player =>
          \A turn \in moves_for_piece(game, x) : turn_is_valid(game, turn)

\* ------------------------------------------------------------------ C39
\* C39: when it is the human player's turn in the terminal interface, the
\* game is undecided and the human's only legal turn is Skip, the Skip gets
\* applied: the game does not stay on the human's turn for ever (unless the
\* human leaves with F1).
C39_SkipIsApplied ==
    (KeyRead /\ turns(game) = {Skip} /\ plies_left > 0)
        ~> (active_player # app.player_color \/ app.returned)

\* what the code does instead: while the human is to move and has only Skip,
\* no key changes the game
C39_SkipOnlyStaysPut ==
    [][(KeyRead /\ turns(game) = {Skip}) => UNCHANGED game_vars]_vars

\* with another legal turn than Skip, the human has applied a turn and the AI
\* is to move
C39_HumanPlayed ==
    /\ active_player # app.player_color
    /\ ~app.returned
    /\ \E turn \in last_turn :
          /\ turn.type = "Move"
          /\ hive[turn.to].color = app.player_color

====
